---- MODULE Spec2Model ----
(***************************************************************************)
(* Model of the NoReal_bot turn orchestration and scheduling core.         *)
(*                                                                         *)
(* src/src/index.ts holds two concatenated revisions of the entry point;   *)
(* the first one (lines 1-846: lock set, batching, idle timers) is the one *)
(* modelled here.  src/src/ai.ts is the orchestrator (generateResponse).   *)
(*                                                                         *)
(* Spec      the scheduling layer: inbound updates, the chat lock, the     *)
(*           passive batch, the idle timers and the life of every          *)
(*           generateResponse call chain seen from its caller.             *)
(* SpecLock  lockChat / unlockChat driven by arbitrary callers.            *)
(* SpecGen   the inside of one generateResponse call chain.                *)
(*                                                                         *)
(* The program is single-threaded JavaScript: a handler runs without       *)
(* interruption from one await to the next, so every action below is the   *)
(* code between two awaits (or between a timer firing and the first await  *)
(* of its callback).                                                       *)
(***************************************************************************)
EXTENDS Integers, Sequences, FiniteSets, TLC

(***************************************************************************)
(* Bounds of the model.                                                    *)
(***************************************************************************)
NumChats == 2
MaxUpdates == 2

(***************************************************************************)
(* Program constants.                                                      *)
(***************************************************************************)
BATCH_WINDOW == 30000
IDLE_TIMEOUT_MIN == 7200000
IDLE_TIMEOUT_VAR == 14400000
HISTORY_LIMIT == 15
IDLE_HISTORY_LIMIT == 5

Chats == 1..NumChats

\* The clock advances in steps of a batch window or of a minimum idle
\* timeout.
TickMs == BATCH_WINDOW
JumpMs == IDLE_TIMEOUT_MIN

\* Math.random() * IDLE_TIMEOUT_VAR lies in [0, IDLE_TIMEOUT_VAR).  A timer
\* fires at its deadline or later, so the behaviours of the smallest draw
\* include those of every other draw: the model draws the smallest.
IdleDraws == {0}

\* Kinds of inbound update.  "active": private chat, mention or reply to the
\* bot; "passive": any other text; "help": the capabilities question;
\* "self": a text whose sender is the bot; "start": the /start command.
TextKinds == {"active", "passive", "help", "self"}
UpdateKinds == TextKinds \cup {"start"}

\* What a generateResponse call chain returns to its caller.
Responses == {"text", "photo", "textphoto"}
Results == Responses \cup {"null"}

NoBatch == [timer |-> 0, messagesCount |-> 0, lastCtx |-> 0]

VARIABLES
    now,              \* Date.now(), in ms
    processingChats,  \* index.ts: const processingChats = new Set<number>()
    chatTimers,       \* index.ts: const chatTimers = new Map(): chat -> handle
    timers,           \* the runtime's table of live timers
    pendingBatches,   \* index.ts: const pendingBatches = new Map()
    history,          \* the history table of the store, per chat
    nextUpdate,       \* number of updates received so far
    handlers,         \* text handlers between their arrival and their end
    runs,             \* triggered processing in progress: active, batch, idle
    obs,              \* history variables, read by the properties only
    callers,          \* SpecLock: the callers of lockChat / unlockChat
    attempts,         \* SpecLock: per chat, the lockChat results since the last unlock
    gen,              \* SpecGen: one generateResponse call chain
    cmp,              \* SpecCompact: one pass of the context management
    reminders,        \* SpecRem: the reminders table of the store
    sweeps,           \* SpecRem: the checkReminders calls in progress
    remObs,           \* SpecRem: history variables
    tool,             \* SpecTool: one tool invocation of the tool loop
    parse,            \* SpecParse: one provider reply and what is parsed from it
    chance,           \* SpecChance: the chat_settings row of one chat and the last call
    send              \* SpecSend: one call of sendBotResponse / sendBotResponseApi

vars == <<now, processingChats, chatTimers, timers, pendingBatches, history,
          nextUpdate, handlers, runs, obs, callers, attempts, gen, cmp,
          reminders, sweeps, remObs, tool, parse, chance, send>>

\* The variables of SpecLock and SpecGen, which Spec leaves alone, and those
\* of Spec that SpecLock and SpecGen leave alone.
lockVars == <<callers, attempts>>

genVars == <<gen>>

cmpVars == <<cmp>>

remVars == <<reminders, sweeps, remObs>>

toolVars == <<tool, parse>>

chanceVars == <<chance>>

sendVars == <<send>>

schedVars == <<now, chatTimers, timers, pendingBatches, history, nextUpdate,
               handlers, runs, obs>>

(***************************************************************************)
(* Chat Processing Lock System (index.ts 17-34).                           *)
(***************************************************************************)
\* Faulty variants of the lock, for the sensitivity of the properties.
isProcessingNever(chatId) == FALSE

lockChatAlways(set, chatId) == TRUE

isProcessingAny(chatId) == processingChats # {}

isProcessing(chatId) == chatId \in processingChats

\* lockChat: the value it returns, and the set it leaves.
lockChatResult(set, chatId) == chatId \notin set

lockChatSet(set, chatId) == set \cup {chatId}

\* Faulty variant: an unlock that leaves the set as it is.
unlockChatNothing(set, chatId) == set

unlockChatSet(set, chatId) == set \ {chatId}

(***************************************************************************)
(* Timers of the runtime.  A timer is in the table from setTimeout until   *)
(* it fires or is cleared; clearTimeout of a handle that is not in the     *)
(* table (it fired, or was cleared before) does nothing.  A timer fires no *)
(* earlier than its deadline; the event loop may run it later.             *)
(***************************************************************************)
\* Faulty variant: a clearTimeout that clears nothing.
clearTimeoutNothing(tm, h) == tm

clearTimeout(tm, h) == {t \in tm : t.id # h}

setTimeout(tm, h, kind, chatId, delay) ==
    tm \cup {[id |-> h, kind |-> kind, chat |-> chatId, deadline |-> now + delay]}

Due(t) == t \in timers /\ now >= t.deadline

\* Handles are fresh: the idle timer armed by update u and the batch timer
\* armed by the handler of update u.
IdleHandle(u) == 2 * u - 1

BatchHandle(u) == 2 * u

\* Faulty variant: a resetIdleTimer that does not clear the existing timer.
resetIdleTimerNoClear(tm, chatId, h, draw) ==
    setTimeout(tm, h, "idle", chatId, IDLE_TIMEOUT_MIN + draw)

\* resetIdleTimer(chatId) (index.ts 384-431): the timer table it leaves when
\* Math.random() * IDLE_TIMEOUT_VAR is `draw` and the new handle is h.
resetIdleTimer(tm, chatId, h, draw) ==
    LET existingTimer == chatTimers[chatId]
        cleared == IF existingTimer # 0 THEN clearTimeout(tm, existingTimer) ELSE tm
        duration == IDLE_TIMEOUT_MIN + draw
    IN  setTimeout(cleared, h, "idle", chatId, duration)

Live(h) == \E t \in timers : t.id = h

LiveIdle(c) == {t \in timers : t.kind = "idle" /\ t.chat = c}

(***************************************************************************)
(* The history store (db.ts 317-341).                                      *)
(***************************************************************************)
addMessage(h, chatId, role, msg) ==
    [h EXCEPT ![chatId] = Append(@, [role |-> role, msg |-> msg])]

getHistory(chatId, limit) ==
    LET all == history[chatId]
        n == Len(all)
    IN  IF n <= limit THEN all ELSE SubSeq(all, n - limit + 1, n)

UserMsgs(hist) == {hist[i].msg : i \in {j \in 1..Len(hist) : hist[j].role = "user"}}

(***************************************************************************)
(* SpecLock: the callers of lockChat and unlockChat.  A caller is in state *)
(* "idle", "holding" (lockChat returned true: it works, then unlocks in    *)
(* its finally block) or "refused" (lockChat returned false: it returns).  *)
(***************************************************************************)
NumCallers == 3
MaxAttempts == 3

Callers == 1..NumCallers

CallersInit == [p \in Callers |-> [st |-> "idle", chat |-> 0]]

AttemptsInit == [c \in Chats |-> <<>>]

(***************************************************************************)
(* SpecGen: one generateResponse call chain (ai.ts 208-514).               *)
(***************************************************************************)
MAX_DEPTH == 5
MaxTools == 2
MaxContent == 2

\* JSON.stringify(messages).length against MAX_CHARS = 40000 and the
\* summarization threshold 60000 (ai.ts 241-259).
Sizes == {"small", "large", "huge"}

\* A tool invocation of a provider reply, by what its dispatch meets:
\*   "ok"       the tool returns its result;
\*   "errstr"   the dispatch itself answers with an error string (set_reminder
\*              below 3600 s, a non-numeric user id) or "Unknown tool.";
\*   "throws"   the tool backend or the store call rejects (searchWeb on a
\*              non-OK HTTP status, addFact on a store error);
\*   "badargs"  JSON.parse of the arguments throws;
\*   "other"    toolCall.type is not 'function';
\*   "photo"    get_funny_image returns the JSON of a photo: the dispatch keeps
\*              the photo as messages.__photoToSend and answers with the
\*              marker "Photo will be sent" (ai.ts 406-425).
ToolKinds == {"ok", "errstr", "throws", "badargs", "other", "photo"}

Rounds == UNION {[1..n -> ToolKinds] : n \in 1..MaxTools}

\* The content of a provider message, as a sequence of pieces: "text" (plain
\* text), "think" (a <think>...</think> block) and "markup" (<|python_tag|>,
\* or tool-call markup that gave no tool call).
Tokens == {"text", "think", "markup"}

Contents == UNION {[1..n -> Tokens] : n \in 0..MaxContent}

IsText(tok) == tok = "text"

\* The content after the tags, the tool-call markup and the thinking blocks
\* are removed and the rest is trimmed (ai.ts 373-384).
clean(content) == SelectSeq(content, IsText)

\* const finalResponse = content || message.content (ai.ts 497): an empty
\* cleaned content falls back to the content as the provider gave it.
finalResponse(content) ==
    IF clean(content) # <<>> THEN clean(content) ELSE content

\* The kind of the BotResponse | null built from the final text and the
\* pending photo (ai.ts 501-509).
resultKind(text, photo) ==
    IF photo # <<>> THEN (IF text # <<>> THEN "textphoto" ELSE "photo")
    ELSE IF text # <<>> THEN "text" ELSE "null"

\* Faulty variant: a failing provider call that escapes generateResponse.
failureResultThrown(kind) == IF kind = "error" THEN "thrown" ELSE "null"

\* What the call returns when the provider call throws (the catch, ai.ts
\* 510-513) or gives no message (ai.ts 294).
failureResult(kind) == "null"

\* Faulty variant: a loop that leaves before its last invocation.
roundOverEarly(round, idx) == idx >= Len(round)

\* The end of the loop over the tool calls (ai.ts 392, 491).
roundOver(round, idx) == idx > Len(round)

\* The messages a round appends to the buffer: the assistant tool-call
\* message (ai.ts 390) and one tool-result message per dispatched invocation,
\* carrying its tool_call_id (ai.ts 486-490).
AssistantMsg == [role |-> "assistant", id |-> 0]

ToolMsg(i) == [role |-> "tool", id |-> i]

\* appended: the messages pushed since the last provider reply; photo: the
\* __photoToSend property of the current messages array (<<>>: none), named
\* by the depth and position of the invocation that made it; made: the
\* latest photo a tool produced in the chain (a history field); reply: the
\* kind of the last provider reply; text, resPhoto: the text and the
\* attachment of the result.
GenIdle ==
    [pc |-> "idle", depth |-> 0, size |-> "small", calls |-> 0, summaries |-> 0,
     round |-> <<>>, idx |-> 0, appended |-> <<>>,
     photo |-> <<>>, made |-> <<>>, reply |-> "none",
     allTools |-> TRUE, result |-> "none", text |-> <<>>, resPhoto |-> <<>>,
     content |-> <<>>, sent |-> FALSE]

\* What the provider call can give: "error" (the call throws), "nomessage"
\* (no choice in the response), "final" (a message that holds no tool call,
\* native or textual) and "tools" (a message with tool calls).
Replies ==
    {[kind |-> k, calls |-> <<>>, content |-> <<>>] : k \in {"error", "nomessage"}}
        \cup {[kind |-> "final", calls |-> <<>>, content |-> c] : c \in Contents}
        \cup {[kind |-> "tools", calls |-> r, content |-> <<>>] : r \in Rounds}

\* The call of a caller: depth 0 (the default of the parameter).
GenStart(sz) == [GenIdle EXCEPT !.pc = "entry", !.size = sz]

SizeRank(sz) == IF sz = "small" THEN 0 ELSE IF sz = "large" THEN 1 ELSE 2

\* The sizes the buffer can have after the truncation (ai.ts 259-278): at
\* most MAX_CHARS, unless the system message alone is longer.
AfterTruncation(sz) ==
    IF sz = "small" THEN {"small"}
    ELSE {z \in Sizes : SizeRank(z) <= SizeRank(sz)}

\* The sizes the buffer can have after a tool result of at most 10000
\* characters (and the marker) is appended (ai.ts 481-490).
AfterAppend(sz) ==
    {z \in Sizes : SizeRank(sz) <= SizeRank(z) /\ SizeRank(z) <= SizeRank(sz) + 1}

(***************************************************************************)
(* SpecCompact: the context management of generateResponse (ai.ts          *)
(* 240-278) on message lists with their serialized lengths.                *)
(***************************************************************************)
MAX_CHARS == 40000
SUMMARIZE_CHARS == 60000
KEEP_RECENT == 10
MaxMsgs == 3

\* JSON.stringify(msg).length of the messages of the model.
Lens == {10000, 15000, 25000, 45000}

\* A message of the buffer: its role, its place in the input, the length of
\* its serialization and its tool-call ids: those of `tool_calls` for an
\* assistant message, `tool_call_id` for a tool message, none otherwise.
CallMsg(role, id, len, calls) == [role |-> role, id |-> id, len |-> len, calls |-> calls]

Msg(role, id, len) == CallMsg(role, id, len, {})

RECURSIVE SumLen(_)
SumLen(msgs) == IF msgs = <<>> THEN 0 ELSE Head(msgs).len + SumLen(Tail(msgs))

\* JSON.stringify(messages).length: the two brackets, the serialized
\* messages and the commas between them.
totalChars(msgs) ==
    IF msgs = <<>> THEN 2 ELSE 2 + SumLen(msgs) + (Len(msgs) - 1)

\* Faulty variant: a summarization attempted at every first entry.
summarizationNeededAlways(total, depth) == depth = 0

\* if (totalChars > 60000 && depth === 0) (ai.ts 245).
summarizationNeeded(total, depth) == total > SUMMARIZE_CHARS /\ depth = 0

\* if (totalChars > MAX_CHARS) (ai.ts 259).
truncationNeeded(total) == total > MAX_CHARS

\* messages.slice(-10) (ai.ts 250).
lastN(msgs, n) ==
    IF Len(msgs) <= n THEN msgs ELSE SubSeq(msgs, Len(msgs) - n + 1, Len(msgs))

\* Faulty variant: the recent messages without the system message.
afterSummaryNoSystem(msgs) == lastN(msgs, KEEP_RECENT)

\* The buffer after a successful summarization (ai.ts 248-251).
afterSummary(msgs) ==
    IF msgs # <<>> /\ msgs[1].role = "system"
    THEN <<msgs[1]>> \o lastN(msgs, KEEP_RECENT)
    ELSE lastN(msgs, KEEP_RECENT)

\* The loop of the truncation (ai.ts 267-273): from others[i] backward, keep
\* each message that fits and stop at the first that does not.
RECURSIVE keptFrom(_, _, _)
keptFrom(others, i, currentChars) ==
    IF i = 0 \/ currentChars + others[i].len > MAX_CHARS
    THEN <<>>
    ELSE keptFrom(others, i - 1, currentChars + others[i].len) \o <<others[i]>>

\* The truncation (ai.ts 259-278).
truncated(msgs) ==
    LET hasSystem == msgs # <<>> /\ msgs[1].role = "system"
        others == IF hasSystem THEN Tail(msgs) ELSE msgs
        start == IF hasSystem THEN msgs[1].len ELSE 0
        kept == keptFrom(others, Len(others), start)
    IN  IF hasSystem THEN <<msgs[1]>> \o kept ELSE kept

\* The lists a caller passes: the system message, then up to MaxMsgs
\* messages of the conversation (index.ts 413-416, 590-610, 770-774).
Inputs ==
    UNION {{<<Msg("system", 0, l)>> \o [i \in 1..n |-> Msg("other", i, f[i])] :
               l \in Lens, f \in [1..n -> Lens]} : n \in 0..MaxMsgs}

\* Longer conversations: the system message, one message of any length and
\* then from KEEP_RECENT - 2 to KEEP_RECENT + 1 short messages.
LongInputs ==
    {<<Msg("system", 0, l)>>
        \o [i \in 1..n |-> Msg("other", i, IF i = 1 THEN first ELSE 2000)] :
            l \in Lens, first \in Lens, n \in (KEEP_RECENT - 1)..(KEEP_RECENT + 2)}

\* How the call of summarizeHistory ends (ai.ts 167-206): "summary" (the
\* provider gave a summary and updateChatSummary stored it), "empty" (the
\* provider gave no content), "throws" (the provider call was rejected),
\* "storefail" (updateChatSummary was rejected).  The two rejections are
\* caught inside summarizeHistory.
SummaryOutcomes == {"summary", "empty", "throws", "storefail"}

\* Faulty variant: the caller takes every return for a summary.
summarizeHistoryResultTrue(outcome) == TRUE

\* The value summarizeHistory returns (ai.ts 196-205).
summarizeHistoryResult(outcome) == outcome = "summary"

CmpIdle == [pc |-> "idle", depth |-> 0, input |-> <<>>, buf |-> <<>>, summaries |-> 0,
            outcome |-> "none", stored |-> FALSE]

(***************************************************************************)
(* SpecRem: the reminder poller (index.ts 190-214) and the reminders table *)
(* (db.ts 414-456).                                                        *)
(***************************************************************************)
REMINDER_POLL == 30000
MIN_REMINDER_SECONDS == 3600
MaxReminders == 2
MaxSweeps == 2

\* The user of a reminder; addReminder keeps one unsent reminder for each
\* chat and user.
Users == {1}

\* The delays a set_reminder call asks for, in seconds: the smallest one
\* accepted and one polling interval more.
Delays == {MIN_REMINDER_SECONDS, MIN_REMINDER_SECONDS + 30}

\* A row of the reminders table (db.ts 117-139); its id is its place in
\* the table.
Reminder(chatId, userId, dueAt) ==
    [chat_id |-> chatId, user_id |-> userId, due_at |-> dueAt, is_sent |-> FALSE]

\* Faulty variant: a query that leaves out the chats whose lock is held.
getPendingRemindersUnlocked(rems, at) ==
    LET isPending(id) == /\ ~rems[id].is_sent
                         /\ rems[id].due_at <= at
                         /\ rems[id].chat_id \notin processingChats
    IN  SelectSeq([id \in 1..Len(rems) |-> id], isPending)

\* Faulty variant: the query without the is_sent condition.
getPendingRemindersAnySent(rems, at) ==
    LET isPending(id) == rems[id].due_at <= at
    IN  SelectSeq([id \in 1..Len(rems) |-> id], isPending)

\* getPendingReminders (db.ts 443-451): the ids of the rows with
\* is_sent = false and due_at <= new Date(), in the order of the table.
getPendingReminders(rems, at) ==
    LET isPending(id) == ~rems[id].is_sent /\ rems[id].due_at <= at
    IN  SelectSeq([id \in 1..Len(rems) |-> id], isPending)

\* markReminderSent (db.ts 453-456).
markReminderSent(rems, id) == [rems EXCEPT ![id].is_sent = TRUE]

\* The unsent row of a chat and user, if any (db.ts 421-427).
activeReminder(rems, chatId, userId) ==
    {id \in 1..Len(rems) : /\ rems[id].chat_id = chatId
                           /\ rems[id].user_id = userId
                           /\ ~rems[id].is_sent}

\* addReminder (db.ts 414-441).
addReminder(rems, chatId, userId, dueAt) ==
    IF activeReminder(rems, chatId, userId) # {}
    THEN rems
    ELSE Append(rems, Reminder(chatId, userId, dueAt))

\* A checkReminders call: the time of its query, its position, the result
\* of its query, the index of the reminder it is working on and whether it
\* ended in its catch block.  owed is a history field: the reminders of the
\* result whose delivery had failed in an earlier call when the query
\* returned.
Sweep(at) ==
    [at |-> at, pc |-> "poll", pending |-> <<>>, i |-> 0, threw |-> FALSE, owed |-> {}]

\* The reminders whose delivery has failed in a call started before call n.
FailedBefore(n) ==
    {sweeps[k].pending[sweeps[k].i] : k \in {j \in 1..(n - 1) : sweeps[j].threw}}

InFlight == {n \in 1..Len(sweeps) : sweeps[n].pc # "done"}

\* The due times of the unsent reminders that are not due yet.
Upcoming == {reminders[id].due_at : id \in
                {k \in 1..Len(reminders) : /\ ~reminders[k].is_sent
                                           /\ reminders[k].due_at > now}}

Min(S) == CHOOSE x \in S : \A y \in S : x <= y

Range(f) == {f[k] : k \in DOMAIN f}

\* sends: the number of deliveries of each reminder.
RemInit ==
    /\ reminders = <<>>
    /\ sweeps = <<>>
    /\ remObs = [sends |-> <<>>]

(***************************************************************************)
(* SpecTool: one invocation of the tool loop of generateResponse (ai.ts    *)
(* 392-490), from the parsed arguments to the tool-result message.         *)
(***************************************************************************)
RESULT_LIMIT == 10000
MARKER_LENGTH == 15

\* The values of the parsed arguments, as far as the comparisons and the
\* tests of the code tell them apart: undefined, a number, the text of a
\* number ("7200"), any other text, the empty string.
Undefined == [t |-> "undefined", v |-> 0]
Num(n) == [t |-> "number", v |-> n]
NumStr(n) == [t |-> "numstr", v |-> n]
Text == [t |-> "text", v |-> 0]
Empty == [t |-> "empty", v |-> 0]

\* ToBoolean of a value.
truthy(x) == \/ x.t = "number" /\ x.v # 0
             \/ x.t \in {"numstr", "text"}

\* a || b.
or(a, b) == IF truthy(a) THEN a ELSE b

\* x < n for a number n: x is converted to a number, and the comparison is
\* false when the conversion gives NaN (undefined, a text that is not a
\* number).
lessThan(x, n) == x.t \in {"number", "numstr", "empty"} /\ x.v < n

\* Faulty variant: no lower limit on the delay.
belowMinimumNever(seconds) == FALSE

\* if (seconds < 3600) (ai.ts 441).
belowMinimum(seconds) == lessThan(seconds, MIN_REMINDER_SECONDS)

\* else if (onReminder && typeof seconds === 'number' && text) (ai.ts 443).
canSchedule(onReminder, seconds, text) ==
    onReminder /\ seconds.t = "number" /\ truthy(text)

\* A string of the tool loop: which string it is, how many of its
\* characters are there (from its start), whether the truncation marker
\* follows them, and whether the string holds the URL of an image.
Str(src, body, url) == [src |-> src, body |-> body, marker |-> FALSE, url |-> url]

NoStr == Str("none", 0, FALSE)

\* The strings the branches of the tool loop build (ai.ts 414, 442, 445,
\* 447); their lengths are those of short sentences.
PhotoMarker == Str("Photo will be sent", 18, FALSE)
MinimumError == Str("Error: Minimum reminder time", 70, FALSE)
ReminderSet == Str("Reminder set", 26, FALSE)
MissingError == Str("Error: Missing parameters", 80, FALSE)

\* Faulty variant: the result is appended whole.
truncateResultNever(result) == result

\* if (result.length > 10000) result = result.substring(0, 10000) +
\* "... [truncated]" (ai.ts 481-484).
truncateResult(result) ==
    IF result.body > RESULT_LIMIT
    THEN [result EXCEPT !.body = RESULT_LIMIT, !.marker = TRUE]
    ELSE result

\* result.length.
length(str) == str.body + (IF str.marker THEN MARKER_LENGTH ELSE 0)

\* The lengths of the strings searchWeb and extractUrlContent return.
RawLens == {0, 500, 10000, 10001, 20000}

\* What getFunnyImage returns (part_001 108-114): the JSON text of
\* {type: "photo", url, caption}.
PhotoJson == Str("photo json", 150, TRUE)

\* Faulty variant: the text of the tool becomes the result.
photoResultRaw(imageResult) == imageResult

\* The result of the getfunnyimage branch (ai.ts 406-425): the marker when
\* the text parses to a photo with a url, the text itself otherwise.
photoResult(imageResult) ==
    IF imageResult.src = "photo json" THEN PhotoMarker ELSE imageResult

\* The arguments of a set_reminder call, after JSON.parse (ai.ts 398).
NoArgs == [seconds |-> Undefined, time |-> Undefined, delay |-> Undefined,
           text |-> Undefined, message |-> Undefined]

ReminderArgs ==
    [seconds : {Undefined, Num(0), Num(3599), Num(3600), Num(7200),
                NumStr(7200), NumStr(60)},
     time : {Undefined, Num(60), Num(7200)},
     delay : {Undefined, Num(3600)},
     text : {Undefined, Text, Empty},
     message : {Undefined, Text}]

ToolIdle == [pc |-> "idle", name |-> "none", args |-> NoArgs, onReminder |-> FALSE,
             raw |-> NoStr, result |-> NoStr, photo |-> FALSE, called |-> FALSE]

\* The reminders table when the tool loop is entered: empty, or with the
\* unsent reminder that an earlier set_reminder of the same user in the same
\* chat has stored, due in an hour and a half.
StoredBefore == {<<>>, <<Reminder(1, 1, 90 * 60 * 1000)>>}

\* The invocations at the head of the loop body: the tool, its arguments,
\* whether the caller passed onReminder (index.ts 418, 620, 777) and the
\* text the tool is going to return.
ToolCalls ==
    {[ToolIdle EXCEPT !.pc = "call", !.name = "set_reminder", !.args = a,
                      !.onReminder = o] : a \in ReminderArgs, o \in BOOLEAN}
    \cup {[ToolIdle EXCEPT !.pc = "call", !.name = "get_funny_image",
                           !.raw = PhotoJson]}
    \cup {[ToolIdle EXCEPT !.pc = "call", !.name = n, !.raw = Str("tool text", l, FALSE)] :
             n \in {"search_web", "extract_url_content"}, l \in RawLens}

(***************************************************************************)
(* SpecParse: the textual tool calls of a provider reply (ai.ts 298-384).  *)
(* The content is a sequence of pieces of text, each of them a piece that  *)
(* the regular expressions of the code take or leave as a whole: a word    *)
(* (\w+), a bracket, a quote, a tag.                                       *)
(***************************************************************************)
MaxValue == 4

\* const knownTools = [...] (ai.ts 347).
knownTools ==
    <<"get_funny_image", "search_web", "extract_url_content", "save_memory",
      "set_reminder", "delete_memory", "change_user_reputation",
      "update_relationship", "get_chat_info">>

\* The words of the contents of the model.  The piece "<function" is the
\* character "<" followed by the word "function".
Words == Range(knownTools) \cup {"cats", "query", "function"}

wordOf(t) == IF t = "<function" THEN "function" ELSE t

endsInWord(t) == wordOf(t) \in Words

\* The double quote and the apostrophe.
Quotes == {"dq", "sq"}

\* The first index of seq, from `from` on, whose piece is in set; 0 if none.
RECURSIVE indexOf(_, _, _)
indexOf(seq, set, from) ==
    IF from > Len(seq) THEN 0
    ELSE IF seq[from] \in set THEN from
    ELSE indexOf(seq, set, from + 1)

\* The first index i of seq, from `from` on, with a at i and b at i + 1; 0
\* if none.
RECURSIVE indexOfPair(_, _, _, _)
indexOfPair(seq, a, b, from) ==
    IF from >= Len(seq) THEN 0
    ELSE IF seq[from] = a /\ seq[from + 1] = b THEN from
    ELSE indexOfPair(seq, a, b, from + 1)

at(seq, i) == IF i \in 1..Len(seq) THEN seq[i] ELSE "end"

\* The end of the match of a pattern that starts at p, 0 if there is none.
\*   "function>":  /<function\(.*?\)>.*?<\/function>/s        (ai.ts 376)
\*   "function{":  /<function\(.*?\){.*?}<\/function>/s        (ai.ts 377)
\*   "tools":      /<tools>.*?<\/tools>/s                      (ai.ts 306, 378)
\*   "think":      /<think>.*?<\/think>/s                      (ai.ts 379)
\*   "call":       /(\w+)\(([^)]+)\)/                          (ai.ts 307)
\*   "arg":        /(\w+)=["']([^"']+)["']/                    (ai.ts 358)
\*   a tool name:  new RegExp(`${toolName}\\([^)]+\\)`)        (ai.ts 382)
matchEnd(kind, seq, p) ==
    IF kind = "function>"
    THEN IF at(seq, p) = "<function" /\ at(seq, p + 1) = "("
         THEN LET i == indexOfPair(seq, ")", ">", p + 2)
              IN  IF i = 0 THEN 0 ELSE indexOf(seq, {"</function>"}, i + 2)
         ELSE 0
    ELSE IF kind = "function{"
    THEN IF at(seq, p) = "<function" /\ at(seq, p + 1) = "("
         THEN LET i == indexOfPair(seq, ")", "{", p + 2)
              IN  IF i = 0 THEN 0
                  ELSE LET j == indexOfPair(seq, "}", "</function>", i + 2)
                       IN  IF j = 0 THEN 0 ELSE j + 1
         ELSE 0
    ELSE IF kind = "tools"
    THEN IF at(seq, p) = "<tools>" THEN indexOf(seq, {"</tools>"}, p + 1) ELSE 0
    ELSE IF kind = "think"
    THEN IF at(seq, p) = "<think>" THEN indexOf(seq, {"</think>"}, p + 1) ELSE 0
    ELSE IF kind = "arg"
    THEN IF endsInWord(at(seq, p)) /\ at(seq, p + 1) = "=" /\ at(seq, p + 2) \in Quotes
         THEN LET e == indexOf(seq, Quotes, p + 3)
              IN  IF e > p + 3 THEN e ELSE 0
         ELSE 0
    ELSE IF (IF kind = "call" THEN endsInWord(at(seq, p)) ELSE at(seq, p) = kind)
            /\ at(seq, p + 1) = "("
    THEN LET e == indexOf(seq, {")"}, p + 2)
         IN  IF e > p + 2 THEN e ELSE 0
    ELSE 0

\* content.replace(pattern, "") with the g flag: the matches are taken from
\* left to right, each search starting after the match before.
RECURSIVE removeAll(_, _, _)
removeAll(kind, seq, from) ==
    IF from > Len(seq) THEN <<>>
    ELSE LET e == matchEnd(kind, seq, from)
         IN  IF e # 0 THEN removeAll(kind, seq, e + 1)
             ELSE <<seq[from]>> \o removeAll(kind, seq, from + 1)

\* for (const toolName of knownTools) content = content.replace(...) (ai.ts
\* 381-384), for the tools from the k-th on.
RECURSIVE removeToolCalls(_, _)
removeToolCalls(seq, k) ==
    IF k > Len(knownTools) THEN seq
    ELSE removeToolCalls(removeAll(knownTools[k], seq, 1), k + 1)

\* content.trim().
RECURSIVE trimStart(_)
trimStart(seq) ==
    IF seq # <<>> /\ Head(seq) = "sp" THEN trimStart(Tail(seq)) ELSE seq

RECURSIVE trimEnd(_)
trimEnd(seq) ==
    IF seq # <<>> /\ seq[Len(seq)] = "sp"
    THEN trimEnd(SubSeq(seq, 1, Len(seq) - 1)) ELSE seq

trim(seq) == trimEnd(trimStart(seq))

notPythonTag(t) == t # "<|python_tag|>"

\* Faulty variant: the content is only trimmed.
cleanContentNothing(content) == trim(content)

\* The cleaning of the content (ai.ts 373-384).
cleanContent(content) ==
    trim(removeToolCalls(
             removeAll("think",
                 removeAll("tools",
                     removeAll("function{",
                         removeAll("function>",
                             SelectSeq(content, notPythonTag), 1), 1), 1), 1), 1))

\* JSON.parse of the text of an object with one string property,
\* {"key":"value"}: the property, or "throws" when the text is not that.
jsonParse(text) ==
    LET n == Len(text)
    IN  IF /\ n >= 9
           /\ text[1] = "{" /\ text[2] = "dq" /\ text[4] = "dq" /\ text[5] = ":"
           /\ text[6] = "dq" /\ text[n - 1] = "dq" /\ text[n] = "}"
           /\ \A i \in 7..(n - 2) : text[i] # "dq"
        THEN [ok |-> TRUE, args |-> <<[k |-> text[3], v |-> SubSeq(text, 7, n - 2)]>>]
        ELSE [ok |-> FALSE, args |-> <<>>]

ToolCall(name, args) == [name |-> name, args |-> args]

\* The loop over toolRegex1 (ai.ts 305, 310-323): the first alternative is
\* <function(name)>text</function>, the second <function(name){...}</function>.
RECURSIVE parseFormat1(_, _)
parseFormat1(seq, from) ==
    IF from > Len(seq) THEN <<>>
    ELSE LET head == /\ at(seq, from) = "<function" /\ at(seq, from + 1) = "("
                     /\ at(seq, from + 2) \in Words /\ at(seq, from + 3) = ")"
             e1 == IF head /\ at(seq, from + 4) = ">"
                   THEN indexOf(seq, {"</function>"}, from + 5) ELSE 0
             j2 == IF head /\ at(seq, from + 4) = "{"
                   THEN indexOfPair(seq, "}", "</function>", from + 5) ELSE 0
             e == IF e1 # 0 THEN e1 ELSE IF j2 # 0 THEN j2 + 1 ELSE 0
             argsText == IF e1 # 0 THEN SubSeq(seq, from + 5, e1 - 1)
                         ELSE SubSeq(seq, from + 4, j2)
             parsed == jsonParse(trim(argsText))
         IN  IF e = 0 THEN parseFormat1(seq, from + 1)
             ELSE (IF parsed.ok THEN <<ToolCall(seq[from + 2], parsed.args)>> ELSE <<>>)
                      \o parseFormat1(seq, e + 1)

\* The loop over toolRegex2 (ai.ts 306, 325-343) for the text of one object
\* {"name": name, "arguments": {...}} or of a list of one such object.
RECURSIVE parseFormat2(_, _)
parseFormat2(seq, from) ==
    IF from > Len(seq) THEN <<>>
    ELSE LET e == matchEnd("tools", seq, from)
             text == trim(SubSeq(seq, from + 1, e - 1))
             obj == IF text # <<>> /\ text[1] = "[" /\ text[Len(text)] = "]"
                    THEN SubSeq(text, 2, Len(text) - 1) ELSE text
             n == Len(obj)
             wellFormed == /\ n >= 5
                           /\ obj[1] = "{name:" /\ obj[3] = ",arguments:" /\ obj[n] = "}"
             parsed == jsonParse(SubSeq(obj, 4, n - 1))
         IN  IF e = 0 THEN parseFormat2(seq, from + 1)
             ELSE (IF wellFormed /\ parsed.ok
                   THEN <<ToolCall(obj[2], parsed.args)>> ELSE <<>>)
                      \o parseFormat2(seq, e + 1)

\* argsString.matchAll(/(\w+)=["']([^"']+)["']/g) (ai.ts 357-361).
RECURSIVE parseArgs(_, _)
parseArgs(seq, from) ==
    IF from > Len(seq) THEN <<>>
    ELSE LET e == matchEnd("arg", seq, from)
         IN  IF e = 0 THEN parseArgs(seq, from + 1)
             ELSE <<[k |-> wordOf(seq[from]), v |-> SubSeq(seq, from + 3, e - 1)]>>
                      \o parseArgs(seq, e + 1)

\* The loop over toolRegex3 (ai.ts 307, 348-371): name(args) with a known
\* name.
RECURSIVE parseFormat3(_, _)
parseFormat3(seq, from) ==
    IF from > Len(seq) THEN <<>>
    ELSE LET e == matchEnd("call", seq, from)
             name == wordOf(seq[from])
         IN  IF e = 0 THEN parseFormat3(seq, from + 1)
             ELSE (IF name \in Range(knownTools)
                   THEN <<ToolCall(name, parseArgs(SubSeq(seq, from + 2, e - 1), 1))>>
                   ELSE <<>>)
                      \o parseFormat3(seq, e + 1)

\* The tool calls of a content, in the order in which they are pushed.
parseToolCalls(content) ==
    parseFormat1(content, 1) \o parseFormat2(content, 1) \o parseFormat3(content, 1)

\* The values of an argument: up to MaxValue pieces, none of them a double
\* quote.
ValuePieces == {"cats", "get_chat_info", "(", ")", "sq"}

Values == UNION {[1..n -> ValuePieces] : n \in 1..MaxValue}

Formats == {"function>", "function{", "tools", "toolslist", "bare"}

\* The text of one call of search_web with the argument query = value, in
\* each of the encodings.
jsonText(key, value) == <<"{", "dq", key, "dq", ":", "dq">> \o value \o <<"dq", "}">>

encode(format, name, key, value) ==
    IF format = "function>"
    THEN <<"<function", "(", name, ")", ">">> \o jsonText(key, value) \o <<"</function>">>
    ELSE IF format = "function{"
    THEN <<"<function", "(", name, ")">> \o jsonText(key, value) \o <<"</function>">>
    ELSE IF format = "tools"
    THEN <<"<tools>", "{name:", name, ",arguments:">> \o jsonText(key, value)
             \o <<"}", "</tools>">>
    ELSE IF format = "toolslist"
    THEN <<"<tools>", "[", "{name:", name, ",arguments:">> \o jsonText(key, value)
             \o <<"}", "]", "</tools>">>
    ELSE <<name, "(", key, "=", "dq">> \o value \o <<"dq", ")">>

\* The plain text before the call.
Prefixes == {<<>>, <<"cats", "sp">>}

ParseIdle == [pc |-> "idle", format |-> "none", value |-> <<>>, prefix |-> <<>>,
              content |-> <<>>, toolCalls |-> <<>>, cleaned |-> <<>>]

(***************************************************************************)
(* History variables, read by the properties only.  Per chat:              *)
(*   members, firstAt  the updates counted in the pending batch and the    *)
(*                     arrival time of the first of them;                  *)
(*   pure    all the chat ever received are passive texts, each arriving   *)
(*           less than one window after the first, and the chat saw no     *)
(*           store error and no idle wake;                                 *)
(*   t0, ids, gens     while pure: the arrival time of the first text      *)
(*           (-1: none yet), the texts received and the number of          *)
(*           generateResponse calls made for the chat.                     *)
(***************************************************************************)
(***************************************************************************)
(* The reply decision of the passive mode (db.ts 243-270) and the command  *)
(* that sets the reply chance (index.ts 365-377).                          *)
(***************************************************************************)
MaxCalls == 4

\* The reply chances and the batch sizes of the model.
Chances == {0, 1, 10, 30, 100}
Increments == {1, 2, 50}

\* message_counter is a JavaScript number: after a firing it holds a fraction
\* when 100 / reply_chance is not whole.  The model counts in parts of a
\* message such that every threshold of the model is whole: one message is
\* Whole parts.
Whole == 3 * 100

\* The back ends of the store (db.ts 142-143).
DbTypes == {"sqlite", "mysql"}

\* settings.reply_chance || 1 (db.ts 258).
orOne(reply_chance) == IF reply_chance = 0 THEN 1 ELSE reply_chance

\* const threshold = 100 / (settings.reply_chance || 1) (db.ts 258), in parts.
threshold(reply_chance) == (100 * Whole) \div orOne(reply_chance)

\* Math.max(0, x) (db.ts 263).
max0(x) == IF x < 0 THEN 0 ELSE x

\* What the column `message_counter`, declared { type: "int" } (db.ts
\* 101-102), holds after repo.save of a number: SQLite keeps a number that is
\* not whole as it is, MySQL rounds it to the nearest integer.
saved(db, parts) ==
    IF db = "mysql"
    THEN ((parts + Whole \div 2) \div Whole) * Whole
    ELSE parts

\* The texts after /set_chance (ctx.match) and what parseInt makes of them
\* (index.ts 366-369).
ChanceArgs == {"", "0", "1", "10", "30", "100", "101", "-1", "abc"}

NaN == [nan |-> TRUE, v |-> 0]

Parsed(n) == [nan |-> FALSE, v |-> n]

parseInt(arg) ==
    CASE arg = "0" -> Parsed(0)
      [] arg = "1" -> Parsed(1)
      [] arg = "10" -> Parsed(10)
      [] arg = "30" -> Parsed(30)
      [] arg = "100" -> Parsed(100)
      [] arg = "101" -> Parsed(101)
      [] arg = "-1" -> Parsed(0 - 1)
      [] OTHER -> NaN

\* The guard of /set_chance (index.ts 369).
chanceRejected(c) == c.nan \/ c.v < 0 \/ c.v > 100

NoCall == [n |-> 0, was |-> 0, chance |-> 0, result |-> FALSE]

\* No chat_settings row yet: getChatSettings and shouldReplyPassive take
\* reply_chance 10 and message_counter 0 (db.ts 240, 253).  `last` is a
\* history field: the arguments and the result of the last call of
\* shouldReplyPassive; `replied` is the answer of the last /set_chance.
ChanceIdle ==
    [db |-> "sqlite", exists |-> FALSE, reply_chance |-> 10, message_counter |-> 0,
     calls |-> 0, replied |-> "none", last |-> NoCall]

(***************************************************************************)
(* sendBotResponse (index.ts 88-107) and sendBotResponseApi (112-129).     *)
(***************************************************************************)
\* No call in progress.  `via` tells sendBotResponse ("ctx") from
\* sendBotResponseApi ("api"); `response` is what generateResponse returned,
\* `markdown` whether its text has one of the characters * _ ` [, `caption`
\* whether its photo has a caption; `photoOk` tells whether the photo request
\* succeeded, `sent` is the set of messages that reached the chat, `threw`
\* whether the call was rejected, `saved` what the caller wrote to the
\* history afterwards.
SendIdle ==
    [pc |-> "idle", via |-> "ctx", response |-> "null", markdown |-> FALSE,
     caption |-> FALSE, photoOk |-> FALSE, sent |-> {}, threw |-> FALSE,
     saved |-> "none"]

\* response.photo and response.text (ai.ts 500-509).
hasPhoto(response) == response \in {"photo", "textphoto"}

hasText(response) == response \in {"text", "textphoto"}

\* const textToSave = response.text || (response.photo ?
\* response.photo.caption || "Photo sent" : "") (index.ts 631, 783, 422).
textToSave(response, caption) ==
    IF hasText(response) THEN "text"
    ELSE IF hasPhoto(response) THEN (IF caption THEN "caption" ELSE "Photo sent")
    ELSE ""

\* The calls of the model.
SendCalls ==
    UNION {{[SendIdle EXCEPT !.pc = "call", !.via = v, !.response = r,
                             !.markdown = m, !.caption = c] :
               v \in {"ctx", "api"},
               m \in {b \in BOOLEAN : b => hasText(r)},
               c \in {b \in BOOLEAN : b => hasPhoto(r)}} : r \in Responses}

ObsInit ==
    [c \in Chats |-> [members |-> {}, firstAt |-> 0,
                      pure |-> TRUE, t0 |-> -1, ids |-> {}, gens |-> 0]]

Impure(o) == [o EXCEPT !.pure = FALSE, !.t0 = -1, !.ids = {}, !.gens = 0]

ObsArrive(o, u, kind) ==
    IF o.pure /\ kind = "passive" /\ (o.t0 = -1 \/ now < o.t0 + BATCH_WINDOW)
    THEN [o EXCEPT !.t0 = IF @ = -1 THEN now ELSE @, !.ids = @ \cup {u}]
    ELSE Impure(o)

ObsGen(o) == IF o.pure THEN [o EXCEPT !.gens = @ + 1] ELSE o

ObsNoBatch(o) == [o EXCEPT !.members = {}, !.firstAt = 0]

SchedInit ==
    /\ now = 0
    /\ processingChats = {}
    /\ chatTimers = [c \in Chats |-> 0]
    /\ timers = {}
    /\ pendingBatches = [c \in Chats |-> NoBatch]
    /\ history = [c \in Chats |-> <<>>]
    /\ nextUpdate = 0
    /\ handlers = {}
    /\ runs = {}
    /\ obs = ObsInit

Init ==
    /\ SchedInit
    /\ callers = CallersInit
    /\ attempts = AttemptsInit
    /\ gen = GenIdle
    /\ cmp = CmpIdle
    /\ RemInit
    /\ chance = ChanceIdle
    /\ send = SendIdle
    /\ tool = ToolIdle
    /\ parse = ParseIdle

(***************************************************************************)
(* Time.                                                                   *)
(***************************************************************************)
\* The clock moves only towards a timer that is waiting for it: by one batch
\* window while a batch timer is not due, by the shortest idle delay while an
\* idle timer is not due.  A due timer may fire at any later moment.
Advance ==
    /\ \E d \in {TickMs, JumpMs} :
          /\ \E t \in timers : /\ ~Due(t)
                                /\ t.kind = (IF d = TickMs THEN "batch" ELSE "idle")
          /\ now' = now + d
    /\ UNCHANGED <<lockVars, genVars, cmpVars, remVars, toolVars, chanceVars, sendVars, processingChats, chatTimers, timers, pendingBatches,
                   history, nextUpdate, handlers, runs, obs>>

(***************************************************************************)
(* An update arrives.  bot.command("start") (index.ts 433-454) only resets *)
(* the idle timer.  bot.on("message:text") (index.ts 646-674) resets the   *)
(* idle timer and then awaits the store writes.                            *)
(***************************************************************************)
Arrive(c, kind, draw) ==
    /\ nextUpdate < MaxUpdates
    /\ LET u == nextUpdate + 1
       IN  /\ nextUpdate' = u
           /\ timers' = resetIdleTimer(timers, c, IdleHandle(u), draw)
           /\ chatTimers' = [chatTimers EXCEPT ![c] = IdleHandle(u)]
           /\ handlers' = IF kind = "start" THEN handlers
                          ELSE handlers \cup {[id |-> u, chat |-> c, kind |-> kind,
                                               at |-> now, pc |-> "save"]}
           /\ obs' = [obs EXCEPT ![c] = ObsArrive(@, u, kind)]
    /\ UNCHANGED <<lockVars, genVars, cmpVars, remVars, toolVars, chanceVars, sendVars, now, processingChats, pendingBatches, history, runs>>

\* await upsertUser(...); await addMessage(chatId, "user", ...) (index.ts
\* 672-674).  A store error rejects the handler (bot.catch logs it).
SaveMessage(h, ok) ==
    /\ h \in handlers
    /\ h.pc = "save"
    /\ IF ok
       THEN /\ history' = addMessage(history, h.chat, "user", h.id)
            /\ handlers' = (handlers \ {h}) \cup {[h EXCEPT !.pc = "route"]}
            /\ UNCHANGED obs
       ELSE /\ handlers' = handlers \ {h}
            /\ obs' = [obs EXCEPT ![h.chat] = Impure(@)]
            /\ UNCHANGED history
    /\ UNCHANGED <<lockVars, genVars, cmpVars, remVars, toolVars, chanceVars, sendVars, now, processingChats, chatTimers, timers, pendingBatches,
                   nextUpdate, runs>>

\* A processing at its start.  members and firstAt are history fields: for a
\* batch run the updates counted in its batch and the arrival time of the
\* first; for an active run those of the batch it discarded, if any.
NewRun(c, trigger, src, count, lastCtx, members, firstAt) ==
    [chat |-> c, trigger |-> trigger, src |-> src, pc |-> "ctx",
     count |-> count, lastCtx |-> lastCtx, lucky |-> FALSE, ctx |-> {},
     res |-> "none", members |-> members, firstAt |-> firstAt]

\* Faulty variant: an extension that does not count the message.
extendBatchNoCount(existing, u) == [existing EXCEPT !.lastCtx = u]

\* The passive branch when a batch is pending (index.ts 802-806).
extendBatch(existing, u) ==
    [existing EXCEPT !.messagesCount = @ + 1, !.lastCtx = u]

\* The delay of the batch timer (index.ts 810).
batchDelay == BATCH_WINDOW

\* The rest of the text handler, from the return of addMessage to its next
\* await or its end (index.ts 678-820).
Route(h) ==
    /\ h \in handlers
    /\ h.pc = "route"
    /\ handlers' = handlers \ {h}
    /\ LET c == h.chat
           pending == pendingBatches[c]
       IN  IF h.kind = "self" \/ isProcessing(c) \/ h.kind = "help"
           THEN \* index.ts 678, 681-684, 710-716
                UNCHANGED <<processingChats, timers, pendingBatches, runs, obs>>
           ELSE IF h.kind = "active"
           THEN \* ACTIVE MODE (index.ts 720-745)
                /\ timers' = IF pending # NoBatch
                             THEN clearTimeout(timers, pending.timer)
                             ELSE timers
                /\ pendingBatches' = [pendingBatches EXCEPT ![c] = NoBatch]
                /\ obs' = [obs EXCEPT ![c] = ObsNoBatch(@)]
                /\ IF lockChatResult(processingChats, c)
                   THEN /\ processingChats' = lockChatSet(processingChats, c)
                        /\ runs' = runs \cup {NewRun(c, "active", h.id, 0, h.id,
                                                      obs[c].members, obs[c].firstAt)}
                   ELSE UNCHANGED <<processingChats, runs>>
           ELSE \* PASSIVE MODE (index.ts 796-820)
                /\ IF pending # NoBatch
                   THEN /\ pendingBatches' =
                               [pendingBatches EXCEPT ![c] = extendBatch(pending, h.id)]
                        /\ obs' = [obs EXCEPT ![c].members = @ \cup {h.id}]
                        /\ UNCHANGED timers
                   ELSE /\ timers' = setTimeout(timers, BatchHandle(h.id), "batch", c,
                                                batchDelay)
                        /\ pendingBatches' =
                               [pendingBatches EXCEPT ![c] =
                                   [timer |-> BatchHandle(h.id), messagesCount |-> 1,
                                    lastCtx |-> h.id]]
                        /\ obs' = [obs EXCEPT ![c].members = {h.id},
                                              ![c].firstAt = h.at]
                /\ UNCHANGED <<processingChats, runs>>
    /\ UNCHANGED <<lockVars, genVars, cmpVars, remVars, toolVars, chanceVars, sendVars, now, chatTimers, history, nextUpdate>>

(***************************************************************************)
(* Timer callbacks.                                                        *)
(***************************************************************************)
\* setTimeout(() => processChatBatch(chatId), 30000) fires: processChatBatch
\* up to its first await (index.ts 470-514).
BatchFire(t) ==
    /\ Due(t)
    /\ t.kind = "batch"
    /\ timers' = timers \ {t}
    /\ LET c == t.chat
           batch == pendingBatches[c]
       IN  IF batch = NoBatch
           THEN UNCHANGED <<processingChats, pendingBatches, runs, obs>>
           ELSE /\ pendingBatches' = [pendingBatches EXCEPT ![c] = NoBatch]
                /\ obs' = [obs EXCEPT ![c] = ObsNoBatch(@)]
                /\ IF lockChatResult(processingChats, c)
                   THEN /\ processingChats' = lockChatSet(processingChats, c)
                        /\ runs' = runs \cup
                               {NewRun(c, "batch", t.id, batch.messagesCount,
                                       batch.lastCtx, obs[c].members, obs[c].firstAt)}
                   ELSE UNCHANGED <<processingChats, runs>>
    /\ UNCHANGED <<lockVars, genVars, cmpVars, remVars, toolVars, chanceVars, sendVars, now, chatTimers, history, nextUpdate, handlers>>

\* The idle timer fires: its callback up to its first await (index.ts
\* 394-398).  The callback does not consult the chat lock.
IdleFire(t) ==
    /\ Due(t)
    /\ t.kind = "idle"
    /\ timers' = timers \ {t}
    /\ runs' = runs \cup {NewRun(t.chat, "idle", t.id, 0, 0, {}, 0)}
    /\ obs' = [obs EXCEPT ![t.chat] = Impure(@)]
    /\ UNCHANGED <<lockVars, genVars, cmpVars, remVars, toolVars, chanceVars, sendVars, now, processingChats, chatTimers, pendingBatches, history,
                   nextUpdate, handlers>>

(***************************************************************************)
(* The life of a triggered processing, between its awaits.                 *)
(***************************************************************************)
\* The end of a processing: the finally block of the active handler (index.ts
\* 791-794) and of processChatBatch (639-641) unlocks the chat; the idle
\* callback holds no lock and ends after its last await (420-427).
finishRun(r) ==
    /\ runs' = runs \ {r}
    /\ processingChats' = IF r.trigger = "idle"
                          THEN processingChats
                          ELSE unlockChatSet(processingChats, r.chat)

\* The store reads that build the context (index.ts 752-756, 514-526,
\* 398-401) and the call of generateResponse, which runs to its first await.
\* A store error is caught by the caller's catch.  `lucky` is the value of
\* shouldReplyPassive(chatId, messagesCount).
BuildContext(r, ok, lucky) ==
    /\ r \in runs
    /\ r.pc = "ctx"
    /\ r.trigger # "batch" => lucky = FALSE
    /\ IF ok
       THEN /\ runs' = (runs \ {r}) \cup
                   {[r EXCEPT
                       !.pc = "gen",
                       !.lucky = lucky,
                       !.ctx = UserMsgs(getHistory(r.chat,
                                  IF r.trigger = "idle"
                                  THEN IDLE_HISTORY_LIMIT ELSE HISTORY_LIMIT))]}
            /\ obs' = [obs EXCEPT ![r.chat] = ObsGen(@)]
            /\ UNCHANGED processingChats
       ELSE /\ finishRun(r)
            /\ obs' = [obs EXCEPT ![r.chat] = Impure(@)]
    /\ UNCHANGED <<lockVars, genVars, cmpVars, remVars, toolVars, chanceVars, sendVars, now, chatTimers, timers, pendingBatches, history, nextUpdate,
                   handlers>>

\* Faulty variant: a batch run delivers whatever the reply decision was.
deliversUnlucky(run, res) == res \in Responses

\* Does the caller deliver the result?  Active: index.ts 779; batch: 624;
\* idle: 420.
delivers(run, res) ==
    /\ res \in Responses
    /\ run.trigger = "batch" => run.lucky

\* generateResponse returns to its caller.
GenReturn(r, res) ==
    /\ r \in runs
    /\ r.pc = "gen"
    /\ IF delivers(r, res)
       THEN /\ runs' = (runs \ {r}) \cup
                   {[r EXCEPT !.pc = "send", !.res = res, !.ctx = {}, !.members = {},
                              !.firstAt = 0, !.count = 0, !.lucky = FALSE]}
            /\ UNCHANGED processingChats
       ELSE finishRun(r)
    /\ UNCHANGED <<lockVars, genVars, cmpVars, remVars, toolVars, chanceVars, sendVars, now, chatTimers, timers, pendingBatches, history, nextUpdate,
                   handlers, obs>>

\* await sendBotResponse(...) (index.ts 782, 630, 421).
SendResponse(r, ok) ==
    /\ r \in runs
    /\ r.pc = "send"
    /\ IF ok
       THEN /\ runs' = (runs \ {r}) \cup {[r EXCEPT !.pc = "save"]}
            /\ UNCHANGED processingChats
       ELSE finishRun(r)
    /\ UNCHANGED <<lockVars, genVars, cmpVars, remVars, toolVars, chanceVars, sendVars, now, chatTimers, timers, pendingBatches, history, nextUpdate,
                   handlers, obs>>

\* await addMessage(chatId, "assistant", textToSave) (index.ts 784, 632, 423),
\* then the end of the processing.
SaveResponse(r, ok) ==
    /\ r \in runs
    /\ r.pc = "save"
    /\ history' = IF ok THEN addMessage(history, r.chat, "assistant", 0)
                  ELSE history
    /\ finishRun(r)
    /\ UNCHANGED <<lockVars, genVars, cmpVars, remVars, toolVars, chanceVars, sendVars, now, chatTimers, timers, pendingBatches, nextUpdate, handlers, obs>>

Next ==
    \/ Advance
    \/ \E c \in Chats, kind \in UpdateKinds, draw \in IdleDraws : Arrive(c, kind, draw)
    \/ \E h \in handlers, ok \in BOOLEAN : SaveMessage(h, ok)
    \/ \E h \in handlers : Route(h)
    \/ \E t \in timers : BatchFire(t)
    \/ \E t \in timers : IdleFire(t)
    \/ \E r \in runs, ok \in BOOLEAN, lucky \in BOOLEAN : BuildContext(r, ok, lucky)
    \/ \E r \in runs, res \in Results : GenReturn(r, res)
    \/ \E r \in runs, ok \in BOOLEAN : SendResponse(r, ok)
    \/ \E r \in runs, ok \in BOOLEAN : SaveResponse(r, ok)

Spec == Init /\ [][Next]_vars

(***************************************************************************)
(* SpecLock.                                                               *)
(***************************************************************************)
\* if (!lockChat(chatId)) return; (index.ts 495-498, 741-744).
Acquire(p, c) ==
    /\ callers[p].st = "idle"
    /\ Len(attempts[c]) < MaxAttempts
    /\ LET ok == lockChatResult(processingChats, c)
       IN  /\ processingChats' = IF ok THEN lockChatSet(processingChats, c)
                                 ELSE processingChats
           /\ callers' = [callers EXCEPT
                             ![p] = [st |-> IF ok THEN "holding" ELSE "refused",
                                     chat |-> c]]
           /\ attempts' = [attempts EXCEPT ![c] = Append(@, ok)]
    /\ UNCHANGED <<schedVars, genVars, cmpVars, remVars, toolVars, chanceVars, sendVars>>

\* finally { unlockChat(chatId); } (index.ts 639-641, 791-794).
Release(p) ==
    /\ callers[p].st = "holding"
    /\ processingChats' = unlockChatSet(processingChats, callers[p].chat)
    /\ callers' = [callers EXCEPT ![p] = [st |-> "idle", chat |-> 0]]
    /\ attempts' = [attempts EXCEPT ![callers[p].chat] = <<>>]
    /\ UNCHANGED <<schedVars, genVars, cmpVars, remVars, toolVars, chanceVars, sendVars>>

\* The refused caller returns (index.ts 497, 743).
Refused(p) ==
    /\ callers[p].st = "refused"
    /\ callers' = [callers EXCEPT ![p] = [st |-> "idle", chat |-> 0]]
    /\ UNCHANGED <<processingChats, attempts, schedVars, genVars, cmpVars, remVars, toolVars, chanceVars, sendVars>>

NextLock ==
    \/ \E p \in Callers, c \in Chats : Acquire(p, c)
    \/ \E p \in Callers : Release(p)
    \/ \E p \in Callers : Refused(p)

SpecLock == Init /\ [][NextLock]_vars

(***************************************************************************)
(* SpecGen.  The call chain is sequential: nothing else touches its        *)
(* buffer, so its steps are taken one tool invocation at a time.           *)
(***************************************************************************)
\* The entry of generateResponse at the current depth, to its first await
\* (ai.ts 217-280).  The truncation binds `messages` to a new array, which
\* does not have the __photoToSend property of the old one.
GenEnter ==
    /\ gen.pc = "entry"
    /\ IF gen.depth > MAX_DEPTH
       THEN gen' = [gen EXCEPT !.pc = "done", !.result = "fallback"]
       ELSE IF gen.size = "huge" /\ gen.depth = 0
       THEN gen' = [gen EXCEPT !.pc = "summarize"]
       ELSE \E z \in AfterTruncation(gen.size) :
                gen' = [gen EXCEPT !.pc = "provider", !.size = z,
                                   !.photo = IF gen.size = "small" THEN @ ELSE <<>>]
    /\ UNCHANGED <<processingChats, schedVars, lockVars, cmpVars, remVars, toolVars, chanceVars, sendVars>>

\* await summarizeHistory(chatId, messages) returns (ai.ts 167-206, 245-256),
\* then the truncation (259-278).  summarizeHistory makes one provider call;
\* it returns true when the call gave a summary and the summary was stored
\* (the buffer becomes the system message and the last 10 messages), and
\* false otherwise (its own catch).
GenSummarize(summarized) ==
    /\ gen.pc = "summarize"
    /\ \E kept \in (IF summarized THEN Sizes ELSE {gen.size}) :
          \E z \in AfterTruncation(kept) :
              gen' = [gen EXCEPT !.pc = "provider", !.size = z, !.summaries = @ + 1]
    /\ UNCHANGED <<processingChats, schedVars, lockVars, cmpVars, remVars, toolVars, chanceVars, sendVars>>

\* await client.chat.completions.create(...) returns or throws (ai.ts
\* 283-300, 373-390, 497-513).
GenProvider(reply) ==
    /\ gen.pc = "provider"
    /\ IF reply.kind = "tools"
       THEN gen' = [gen EXCEPT !.pc = "dispatch", !.calls = @ + 1,
                               !.reply = reply.kind,
                               !.round = reply.calls, !.idx = 1,
                               !.appended = <<AssistantMsg>>]
       ELSE IF reply.kind = "final"
       THEN gen' = [gen EXCEPT !.pc = "done", !.calls = @ + 1,
                               !.reply = reply.kind,
                               !.allTools = FALSE,
                               !.content = reply.content,
                               !.text = finalResponse(reply.content),
                               !.resPhoto = gen.photo,
                               !.result = resultKind(finalResponse(reply.content),
                                                     gen.photo)]
       ELSE gen' = [gen EXCEPT !.pc = "done", !.calls = @ + 1,
                               !.reply = reply.kind,
                               !.allTools = FALSE,
                               !.result = failureResult(reply.kind)]
    /\ UNCHANGED <<processingChats, schedVars, lockVars, cmpVars, remVars, toolVars, chanceVars, sendVars>>

\* One iteration of the loop over the tool calls (ai.ts 392-490).  A throw of
\* JSON.parse or of an awaited tool or store call is caught only by the catch
\* of the whole function (ai.ts 510-513), which returns null.
GenDispatch ==
    /\ gen.pc = "dispatch"
    /\ ~roundOver(gen.round, gen.idx)
    /\ LET k == gen.round[gen.idx]
       IN  IF k = "other"
           THEN gen' = [gen EXCEPT !.idx = @ + 1]
           ELSE IF k \in {"badargs", "throws"}
           THEN gen' = [gen EXCEPT !.pc = "done", !.result = "null"]
           ELSE \E z \in AfterAppend(gen.size) :
                    gen' = [gen EXCEPT
                               !.idx = @ + 1, !.size = z,
                               !.appended = Append(@, ToolMsg(gen.idx)),
                               !.photo = IF k = "photo" THEN <<gen.depth, gen.idx>>
                                         ELSE @,
                               !.made = IF k = "photo" THEN <<gen.depth, gen.idx>>
                                        ELSE @]
    /\ UNCHANGED <<processingChats, schedVars, lockVars, cmpVars, remVars, toolVars, chanceVars, sendVars>>

\* return await generateResponse(..., depth + 1, background) (ai.ts 493-494).
GenRecurse ==
    /\ gen.pc = "dispatch"
    /\ roundOver(gen.round, gen.idx)
    /\ gen' = [gen EXCEPT !.pc = "entry", !.depth = @ + 1, !.idx = 0]
    /\ UNCHANGED <<processingChats, schedVars, lockVars, cmpVars, remVars, toolVars, chanceVars, sendVars>>

\* Faulty variant: the caller drops the result.
sendsResultNever(result) == FALSE

\* if (response) of the caller (index.ts 779): null is the only result that
\* is not sent.
sendsResult(result) == result # "null"

\* The active caller gets the result (index.ts 777-788): sendBotResponse is
\* called with every result that is not null.
GenDeliver ==
    /\ gen.pc = "done"
    /\ gen' = [gen EXCEPT !.pc = "returned", !.sent = sendsResult(gen.result)]
    /\ UNCHANGED <<processingChats, schedVars, lockVars, cmpVars, remVars, toolVars, chanceVars, sendVars>>

InitGen ==
    /\ SchedInit
    /\ callers = CallersInit
    /\ attempts = AttemptsInit
    /\ gen \in {GenStart(sz) : sz \in Sizes}
    /\ cmp = CmpIdle
    /\ RemInit
    /\ chance = ChanceIdle
    /\ send = SendIdle
    /\ tool = ToolIdle
    /\ parse = ParseIdle

NextGen ==
    \/ GenEnter
    \/ \E summarized \in BOOLEAN : GenSummarize(summarized)
    \/ \E reply \in Replies : GenProvider(reply)
    \/ GenDispatch
    \/ GenRecurse
    \/ GenDeliver

SpecGen == InitGen /\ [][NextGen]_vars

(***************************************************************************)
(* SpecCompact.                                                            *)
(***************************************************************************)
\* The context management to its first await or to the provider request
\* (ai.ts 240-283).
CompactEnter ==
    /\ cmp.pc = "entry"
    /\ LET total == totalChars(cmp.input)
       IN  IF summarizationNeeded(total, cmp.depth)
           THEN cmp' = [cmp EXCEPT !.pc = "summarize"]
           ELSE cmp' = [cmp EXCEPT
                           !.pc = "sent",
                           !.buf = IF truncationNeeded(total)
                                   THEN truncated(cmp.input) ELSE cmp.input]
    /\ UNCHANGED <<processingChats, schedVars, lockVars, genVars, remVars, toolVars, chanceVars, sendVars>>

\* await summarizeHistory(...) returns true or false (ai.ts 247-256), then
\* the truncation and the provider request (259-283).
CompactSummarize(outcome) ==
    /\ cmp.pc = "summarize"
    /\ LET msgs == IF summarizeHistoryResult(outcome)
                   THEN afterSummary(cmp.input) ELSE cmp.input
       IN  cmp' = [cmp EXCEPT
                      !.pc = "sent",
                      !.summaries = @ + 1,
                      !.outcome = outcome,
                      !.stored = outcome = "summary",
                      !.buf = IF truncationNeeded(totalChars(msgs))
                              THEN truncated(msgs) ELSE msgs]
    /\ UNCHANGED <<processingChats, schedVars, lockVars, genVars, remVars, toolVars, chanceVars, sendVars>>

\* The buffers of a recursive round (ai.ts 390, 486-494): the system
\* message, one earlier message, the assistant message with its tool calls
\* and one tool message for each call, short or cut at the result limit.
RoundInputs ==
    UNION {{<<Msg("system", 0, l), Msg("other", 1, first),
              CallMsg("assistant", 2, 2000, 1..k)>>
               \o [i \in 1..k |-> CallMsg("tool", 2 + i, f[i], {i})] :
                  l \in Lens, first \in Lens,
                  f \in [1..k -> {2000, RESULT_LIMIT + MARKER_LENGTH}]} :
              k \in 1..MaxTools}

InitCompact ==
    /\ SchedInit
    /\ callers = CallersInit
    /\ attempts = AttemptsInit
    /\ gen = GenIdle
    /\ RemInit
    /\ chance = ChanceIdle
    /\ send = SendIdle
    /\ tool = ToolIdle
    /\ parse = ParseIdle
    /\ cmp \in {[CmpIdle EXCEPT !.pc = "entry", !.depth = d, !.input = m] :
                   d \in 0..1, m \in Inputs \cup LongInputs}
               \cup {[CmpIdle EXCEPT !.pc = "entry", !.depth = 1, !.input = m] :
                        m \in RoundInputs}

NextCompact ==
    \/ CompactEnter
    \/ \E outcome \in SummaryOutcomes : CompactSummarize(outcome)

SpecCompact == InitCompact /\ [][NextCompact]_vars

(***************************************************************************)
(* SpecRem.                                                                *)
(***************************************************************************)
\* scheduleReminder called by the set_reminder tool (index.ts 608-614,
\* 775): the due time is now plus the delay.
AddReminder(c, u, seconds) ==
    /\ Len(reminders) < MaxReminders
    /\ reminders' = addReminder(reminders, c, u, now + seconds * 1000)
    /\ remObs' = [remObs EXCEPT
                     !.sends = IF Len(reminders') > Len(reminders)
                               THEN Append(@, 0) ELSE @]
    /\ UNCHANGED <<lockVars, genVars, cmpVars, toolVars, chanceVars, sendVars, schedVars, processingChats, sweeps>>

\* The interval timer fires (index.ts 214) and checkReminders issues its
\* query (index.ts 192, db.ts 445-450).  While nothing is due and no call is
\* in progress the calls find nothing, and the clock moves to the first of
\* them that does.
SweepStart(skip) ==
    /\ Len(sweeps) < MaxSweeps
    /\ skip => /\ InFlight = {}
               /\ getPendingReminders(reminders, now) = <<>>
               /\ Upcoming # {}
               /\ Min(Upcoming) > now + REMINDER_POLL
    /\ now' = IF skip THEN Min(Upcoming) ELSE now + REMINDER_POLL
    /\ sweeps' = Append(sweeps, Sweep(now'))
    /\ UNCHANGED <<lockVars, genVars, cmpVars, toolVars, chanceVars, sendVars, processingChats, chatTimers, timers,
                   pendingBatches, history, nextUpdate, handlers, runs, obs,
                   reminders, remObs>>

\* The query returns (index.ts 192-193).
SweepPoll(n) ==
    /\ sweeps[n].pc = "poll"
    /\ LET pending == getPendingReminders(reminders, sweeps[n].at)
       IN  sweeps' = [sweeps EXCEPT
                         ![n].pending = pending,
                         ![n].owed = Range(pending) \cap FailedBefore(n),
                         ![n].pc = IF pending = <<>> THEN "done" ELSE "user",
                         ![n].i = IF pending = <<>> THEN 0 ELSE 1]
    /\ UNCHANGED <<lockVars, genVars, cmpVars, toolVars, chanceVars, sendVars, schedVars, processingChats,
                   reminders, remObs>>

\* await getUser(...) returns (index.ts 195-201).
SweepUser(n) ==
    /\ sweeps[n].pc = "user"
    /\ sweeps' = [sweeps EXCEPT ![n].pc = "send"]
    /\ UNCHANGED <<lockVars, genVars, cmpVars, toolVars, chanceVars, sendVars, schedVars, processingChats,
                   reminders, remObs>>

\* await safeSendMessage(...) returns or throws (index.ts 205, 174-187); a
\* throw is caught at the end of checkReminders (208-210).
SweepSend(n, ok) ==
    /\ sweeps[n].pc = "send"
    /\ LET id == sweeps[n].pending[sweeps[n].i]
       IN  IF ok
           THEN /\ sweeps' = [sweeps EXCEPT ![n].pc = "mark"]
                /\ remObs' = [remObs EXCEPT !.sends[id] = @ + 1]
           ELSE /\ sweeps' = [sweeps EXCEPT ![n].pc = "done", ![n].threw = TRUE]
                /\ UNCHANGED remObs
    /\ UNCHANGED <<lockVars, genVars, cmpVars, toolVars, chanceVars, sendVars, schedVars, processingChats, reminders>>

\* await markReminderSent(rem.id) (index.ts 206).
SweepMark(n) ==
    /\ sweeps[n].pc = "mark"
    /\ reminders' = markReminderSent(reminders, sweeps[n].pending[sweeps[n].i])
    /\ sweeps' = [sweeps EXCEPT ![n].pc = "save"]
    /\ UNCHANGED <<lockVars, genVars, cmpVars, toolVars, chanceVars, sendVars, schedVars, processingChats, remObs>>

\* await addMessage(chat, "assistant", rem.text), then the next reminder of
\* the result or the end of the call (index.ts 207, 193).
SweepSave(n) ==
    /\ sweeps[n].pc = "save"
    /\ LET s == sweeps[n]
           id == s.pending[s.i]
       IN  /\ history' = addMessage(history, reminders[id].chat_id, "assistant", id)
           /\ sweeps' = IF s.i < Len(s.pending)
                        THEN [sweeps EXCEPT ![n].pc = "user", ![n].i = s.i + 1]
                        ELSE [sweeps EXCEPT ![n].pc = "done"]
    /\ UNCHANGED <<lockVars, genVars, cmpVars, toolVars, chanceVars, sendVars, processingChats, now, chatTimers, timers,
                   pendingBatches, nextUpdate, handlers, runs, obs, reminders, remObs>>

InitRem ==
    /\ SchedInit
    /\ callers = CallersInit
    /\ attempts = AttemptsInit
    /\ gen = GenIdle
    /\ cmp = CmpIdle
    /\ RemInit
    /\ chance = ChanceIdle
    /\ send = SendIdle
    /\ tool = ToolIdle
    /\ parse = ParseIdle

NextRem ==
    \/ \E c \in Chats, u \in Users, seconds \in Delays : AddReminder(c, u, seconds)
    \/ \E skip \in BOOLEAN : SweepStart(skip)
    \/ \E n \in 1..Len(sweeps) : SweepPoll(n)
    \/ \E n \in 1..Len(sweeps) : SweepUser(n)
    \/ \E n \in 1..Len(sweeps), ok \in BOOLEAN : SweepSend(n, ok)
    \/ \E n \in 1..Len(sweeps) : SweepMark(n)
    \/ \E n \in 1..Len(sweeps) : SweepSave(n)

SpecRem == InitRem /\ [][NextRem]_vars

(***************************************************************************)
(* SpecRemLock: the reminder poller while the handlers and the batch       *)
(* callback take and release the chat locks.                               *)
(***************************************************************************)
\* lockChat(chatId) succeeds in a handler or in processChatBatch (index.ts
\* 741-744, 495-498).
ChatLock(c) ==
    /\ lockChatResult(processingChats, c)
    /\ processingChats' = lockChatSet(processingChats, c)
    /\ UNCHANGED <<lockVars, genVars, cmpVars, toolVars, chanceVars, sendVars, schedVars, remVars>>

\* unlockChat(chatId) in their finally blocks (index.ts 791-794, 639-641).
ChatUnlock(c) ==
    /\ isProcessing(c)
    /\ processingChats' = unlockChatSet(processingChats, c)
    /\ UNCHANGED <<lockVars, genVars, cmpVars, toolVars, chanceVars, sendVars, schedVars, remVars>>

NextRemLock ==
    \/ NextRem
    \/ \E c \in Chats : ChatLock(c)
    \/ \E c \in Chats : ChatUnlock(c)

SpecRemLock == InitRem /\ [][NextRemLock]_vars

(***************************************************************************)
(* SpecTool.                                                               *)
(***************************************************************************)
\* One pass of the loop body for a tool that returns (ai.ts 393-490): the
\* branch of the tool, the truncation of the result and the push of the
\* tool message.  onReminder is scheduleReminder (index.ts 608-614, 775).
ToolDispatch ==
    /\ tool.pc = "call"
    /\ LET seconds == or(or(tool.args.seconds, tool.args.time), tool.args.delay)
           text == or(tool.args.text, tool.args.message)
           schedules == /\ tool.name = "set_reminder"
                        /\ ~belowMinimum(seconds)
                        /\ canSchedule(tool.onReminder, seconds, text)
           result == IF tool.name = "set_reminder"
                     THEN IF belowMinimum(seconds) THEN MinimumError
                          ELSE IF schedules THEN ReminderSet ELSE MissingError
                     ELSE IF tool.name = "get_funny_image"
                     THEN photoResult(tool.raw)
                     ELSE tool.raw
       IN  /\ tool' = [tool EXCEPT
                          !.pc = "pushed",
                          !.called = schedules,
                          !.photo = tool.name = "get_funny_image"
                                    /\ tool.raw.src = "photo json",
                          !.result = truncateResult(result)]
           /\ reminders' = IF schedules
                           THEN addReminder(reminders, 1, 1, now + seconds.v * 1000)
                           ELSE reminders
    /\ UNCHANGED <<lockVars, genVars, cmpVars, schedVars, processingChats,
                   sweeps, remObs, parse, chanceVars, sendVars>>

InitTool ==
    /\ SchedInit
    /\ callers = CallersInit
    /\ attempts = AttemptsInit
    /\ gen = GenIdle
    /\ cmp = CmpIdle
    /\ reminders \in StoredBefore
    /\ sweeps = <<>>
    /\ remObs = [sends |-> [id \in 1..Len(reminders) |-> 0]]
    /\ chance = ChanceIdle
    /\ send = SendIdle
    /\ parse = ParseIdle
    /\ tool \in ToolCalls

NextTool == ToolDispatch

SpecTool == InitTool /\ [][NextTool]_vars

(***************************************************************************)
(* SpecParse.                                                              *)
(***************************************************************************)
\* The reply is received: the textual tool calls are collected and the
\* content is cleaned (ai.ts 298-384).
ParseReply ==
    /\ parse.pc = "reply"
    /\ parse' = [parse EXCEPT
                    !.pc = "parsed",
                    !.toolCalls = parseToolCalls(parse.content),
                    !.cleaned = cleanContent(parse.content)]
    /\ UNCHANGED <<lockVars, genVars, cmpVars, remVars, schedVars, processingChats, tool,
                   chanceVars, sendVars>>

InitParse ==
    /\ SchedInit
    /\ callers = CallersInit
    /\ attempts = AttemptsInit
    /\ gen = GenIdle
    /\ cmp = CmpIdle
    /\ RemInit
    /\ chance = ChanceIdle
    /\ send = SendIdle
    /\ tool = ToolIdle
    /\ parse \in {[ParseIdle EXCEPT
                      !.pc = "reply", !.format = f, !.value = v, !.prefix = x,
                      !.content = x \o encode(f, "search_web", "query", v)] :
                  f \in Formats, v \in Values, x \in Prefixes}

NextParse == ParseReply

SpecParse == InitParse /\ [][NextParse]_vars

(***************************************************************************)
(* SpecSend: one call of sendBotResponse or sendBotResponseApi.            *)
(***************************************************************************)
\* The call up to its first await (index.ts 88-93, 105-106).
SendCall ==
    /\ send.pc = "call"
    /\ send' = [send EXCEPT !.pc = IF hasPhoto(send.response) THEN "photo"
                                   ELSE IF hasText(send.response) THEN "text"
                                   ELSE "returned"]
    /\ UNCHANGED <<lockVars, genVars, cmpVars, remVars, toolVars, chanceVars, schedVars,
                   processingChats>>

\* await ctx.replyWithPhoto(...) / bot.api.sendPhoto(...) returns or throws
\* (index.ts 93-104, 115-126).
SendPhoto(ok) ==
    /\ send.pc = "photo"
    /\ send' = IF ok
               THEN [send EXCEPT !.pc = "returned", !.photoOk = TRUE,
                                 !.sent = @ \cup {"photo"}]
               ELSE [send EXCEPT !.pc = IF hasText(send.response) THEN "text"
                                        ELSE "returned"]
    /\ UNCHANGED <<lockVars, genVars, cmpVars, remVars, toolVars, chanceVars, schedVars,
                   processingChats>>

\* The first request of safeReply / safeSendMessage returns or throws
\* (index.ts 135-187, called at 101, 106, 123, 128): a text with Markdown
\* characters is sent with parse_mode Markdown and, when that request fails,
\* once more as plain text; a text without is sent once.
SendText(ok) ==
    /\ send.pc = "text"
    /\ send' = IF ok
               THEN [send EXCEPT !.pc = "returned", !.sent = @ \cup {"text"}]
               ELSE IF send.markdown
               THEN [send EXCEPT !.pc = "retry"]
               ELSE [send EXCEPT !.pc = "done", !.threw = TRUE]
    /\ UNCHANGED <<lockVars, genVars, cmpVars, remVars, toolVars, chanceVars, schedVars,
                   processingChats>>

\* The plain-text request after a failed Markdown request returns or throws.
SendRetry(ok) ==
    /\ send.pc = "retry"
    /\ send' = IF ok
               THEN [send EXCEPT !.pc = "returned", !.sent = @ \cup {"text"}]
               ELSE [send EXCEPT !.pc = "done", !.threw = TRUE]
    /\ UNCHANGED <<lockVars, genVars, cmpVars, remVars, toolVars, chanceVars, schedVars,
                   processingChats>>

\* The caller's await addMessage(chatId, "assistant", textToSave) after the
\* call has returned (index.ts 631-632, 783-784, 422-423).
SaveSent(ok) ==
    /\ send.pc = "returned"
    /\ send' = [send EXCEPT !.pc = "done",
                            !.saved = IF ok THEN textToSave(send.response, send.caption)
                                      ELSE "none"]
    /\ UNCHANGED <<lockVars, genVars, cmpVars, remVars, toolVars, chanceVars, schedVars,
                   processingChats>>

InitSend ==
    /\ SchedInit
    /\ callers = CallersInit
    /\ attempts = AttemptsInit
    /\ gen = GenIdle
    /\ cmp = CmpIdle
    /\ RemInit
    /\ chance = ChanceIdle
    /\ tool = ToolIdle
    /\ parse = ParseIdle
    /\ send \in SendCalls

NextSend ==
    \/ SendCall
    \/ \E ok \in BOOLEAN : SendPhoto(ok)
    \/ \E ok \in BOOLEAN : SendText(ok)
    \/ \E ok \in BOOLEAN : SendRetry(ok)
    \/ \E ok \in BOOLEAN : SaveSent(ok)

SpecSend == InitSend /\ [][NextSend]_vars

\* A step of the run that holds the lock of chat c: one of its awaits
\* returns, resolved or rejected.
LockedRunStep(c) ==
    \E r \in runs :
        /\ r.chat = c
        /\ r.trigger # "idle"
        /\ \/ \E ok \in BOOLEAN, lucky \in BOOLEAN : BuildContext(r, ok, lucky)
           \/ \E res \in Results : GenReturn(r, res)
           \/ \E ok \in BOOLEAN : SendResponse(r, ok)
           \/ \E ok \in BOOLEAN : SaveResponse(r, ok)

\* The steps of Spec before the first idle wake-up: the idle callback
\* (index.ts 394-427) neither reads nor writes the processing set.
NextLive ==
    \/ Advance
    \/ \E c \in Chats, kind \in UpdateKinds, draw \in IdleDraws : Arrive(c, kind, draw)
    \/ \E h \in handlers, ok \in BOOLEAN : SaveMessage(h, ok)
    \/ \E h \in handlers : Route(h)
    \/ \E t \in timers : BatchFire(t)
    \/ \E r \in runs, ok \in BOOLEAN, lucky \in BOOLEAN : BuildContext(r, ok, lucky)
    \/ \E r \in runs, res \in Results : GenReturn(r, res)
    \/ \E r \in runs, ok \in BOOLEAN : SendResponse(r, ok)
    \/ \E r \in runs, ok \in BOOLEAN : SaveResponse(r, ok)

\* The scheduling the runtime gives: every await of a run that holds a lock
\* returns (the store, the provider, the tools and the Telegram API answer or
\* fail; none hangs).
SpecLive ==
    Init /\ [][NextLive]_vars /\ \A c \in Chats : WF_vars(LockedRunStep(c))

(***************************************************************************)
(* SpecChance: /set_chance and shouldReplyPassive on one chat.              *)
(***************************************************************************)
\* bot.command("set_chance") (index.ts 365-377).
SetChance(arg) ==
    /\ LET c == parseInt(arg)
       IN  IF arg = ""
           THEN chance' = [chance EXCEPT !.replied = "usage"]
           ELSE IF chanceRejected(c)
           THEN chance' = [chance EXCEPT !.replied = "range"]
           ELSE chance' = [chance EXCEPT !.exists = TRUE, !.reply_chance = c.v,
                                         !.replied = "set"]
    /\ UNCHANGED <<lockVars, genVars, cmpVars, remVars, toolVars, sendVars, schedVars,
                   processingChats>>

\* shouldReplyPassive(chatId, increment) (db.ts 247-270).
ShouldReplyPassive(n) ==
    /\ chance.calls < MaxCalls
    /\ LET counter == chance.message_counter + n * Whole
           fires == counter >= threshold(chance.reply_chance)
           kept == IF fires THEN max0(counter - threshold(chance.reply_chance))
                   ELSE counter
       IN  chance' = [chance EXCEPT
                         !.exists = TRUE,
                         !.message_counter = saved(chance.db, kept),
                         !.calls = @ + 1,
                         !.last = [n |-> n, was |-> chance.message_counter,
                                   chance |-> chance.reply_chance, result |-> fires]]
    /\ UNCHANGED <<lockVars, genVars, cmpVars, remVars, toolVars, sendVars, schedVars,
                   processingChats>>

InitChance ==
    /\ SchedInit
    /\ callers = CallersInit
    /\ attempts = AttemptsInit
    /\ gen = GenIdle
    /\ cmp = CmpIdle
    /\ RemInit
    /\ send = SendIdle
    /\ tool = ToolIdle
    /\ parse = ParseIdle
    /\ chance \in {[ChanceIdle EXCEPT !.db = d] : d \in DbTypes}

NextChance ==
    \/ \E arg \in ChanceArgs : SetChance(arg)
    \/ \E n \in Increments : ShouldReplyPassive(n)

SpecChance == InitChance /\ [][NextChance]_vars

(***************************************************************************)
(* Properties.                                                             *)
(***************************************************************************)
\* The runs of a chat whose generateResponse call chain is in progress.
InGen(c) == {r \in runs : r.chat = c /\ r.pc = "gen"}

\* The runs that end in this step.
Ended == IF Cardinality(runs') < Cardinality(runs) THEN runs \ runs' ELSE {}

\* The runs that start in this step.
Started == IF Cardinality(runs') > Cardinality(runs) THEN runs' \ runs ELSE {}

\* The text handlers that leave the handler set from position pc in this step.
Leaving(pc) == {h \in handlers : h.pc = pc /\ \A g \in handlers' : g.id # h.id}

\* C1 (as stated): for every chat, at most one generateResponse call chain is
\* in progress at any time, whichever trigger started it.
C1_OneRunPerChat == \A c \in Chats : Cardinality(InGen(c)) <= 1

\* C2 (as stated): of any two lockChat attempts on the same chat with no
\* unlock between them, exactly one succeeds.
C2_ExactlyOneOfAnyTwo ==
    \A c \in Chats : \A i, j \in 1..Len(attempts[c]) :
        i < j => attempts[c][i] # attempts[c][j]

\* C2 (amended): lockChat never waits: on a chat that is not in the processing
\* set it adds the chat and returns true, otherwise it returns false and
\* leaves the set unchanged.  Of the attempts on one chat since its last
\* unlock exactly one succeeded, the first: of any two, at most one.
C2_LockNeverWaits ==
    [][\A c \in Chats :
          Len(attempts'[c]) = Len(attempts[c]) + 1 =>
              LET res == attempts'[c][Len(attempts'[c])]
              IN  /\ res = (c \notin processingChats)
                  /\ res => processingChats' = processingChats \cup {c}
                  /\ ~res => processingChats' = processingChats
                  /\ attempts'[c][1]
                  /\ \A i \in 2..Len(attempts'[c]) : ~attempts'[c][i]]_vars

\* C2 witness: three attempts on one chat with no unlock between them; the
\* first won, the next two were refused at once.
C2_Witness == \E c \in Chats : attempts[c] = <<TRUE, FALSE, FALSE>>

\* C3: a text handler reaches the lock check only after its message is in the
\* history store; the handler of a message that finds its chat locked ends
\* without starting a run, without creating or extending a batch, without
\* arming a timer and without taking the lock.
C3_SkippedWhenLocked ==
    [][/\ \A h \in handlers :
             h.pc = "route" =>
                 \E i \in 1..Len(history[h.chat]) :
                     history[h.chat][i] = [role |-> "user", msg |-> h.id]
       /\ \A h \in Leaving("route") :
             (h.chat \in processingChats /\ h.kind # "self") =>
                 UNCHANGED <<runs, pendingBatches, timers, processingChats>>]_vars

\* C3 witness: the message of a passive text is stored and its handler is
\* about to consult the lock of a chat that a run holds.
C3_Witness ==
    \E h \in handlers :
        /\ h.pc = "route"
        /\ h.kind = "passive"
        /\ h.chat \in processingChats
        /\ \E r \in runs : r.chat = h.chat /\ r.trigger # "idle"

\* C4 (as stated): while a chat has received nothing but passive texts, all
\* within one window of the first, and no store call failed, at most one run
\* is started for them, not before the window from the first has elapsed,
\* with the count of all of them and a history that contains them all.
C4_OneRunForWindow ==
    \A c \in Chats :
        obs[c].pure =>
            /\ obs[c].gens <= 1
            /\ \A r \in InGen(c) :
                  /\ now >= obs[c].t0 + BATCH_WINDOW
                  /\ r.count = Cardinality(obs[c].ids)
                  /\ obs[c].ids \subseteq r.ctx

\* C5: while a batch is pending, the handler of a further passive text adds
\* one to the count, replaces the triggering context and leaves the batch
\* timer and the timer table alone; a batch run starts no earlier than one
\* window after the arrival of the first message of its batch.
C5_ExtendKeepsTimer ==
    [][/\ \A h \in Leaving("route") :
             (/\ h.kind = "passive"
              /\ h.chat \notin processingChats
              /\ pendingBatches[h.chat] # NoBatch) =>
                 /\ pendingBatches'[h.chat].messagesCount =
                        pendingBatches[h.chat].messagesCount + 1
                 /\ pendingBatches'[h.chat].lastCtx = h.id
                 /\ pendingBatches'[h.chat].timer = pendingBatches[h.chat].timer
                 /\ timers' = timers
       /\ \A r \in Started :
             r.trigger = "batch" => now >= r.firstAt + BATCH_WINDOW]_vars

\* C5 witness: a pending batch that a second passive text has extended, its
\* timer still waiting.
C5_Witness ==
    \E c \in Chats :
        /\ pendingBatches[c].messagesCount = 2
        /\ \E t \in timers : t.id = pendingBatches[c].timer /\ ~Due(t)

\* C6: when an active run starts, the chat has no pending batch and no live
\* batch timer; every live batch timer is the timer of the pending batch of
\* its chat, so the timer of a discarded batch never fires.
C6_ActiveCancelsBatch ==
    [][/\ \A r \in Started :
             r.trigger = "active" =>
                 /\ pendingBatches'[r.chat] = NoBatch
                 /\ \A t \in timers' : ~(t.kind = "batch" /\ t.chat = r.chat)
       /\ \A t \in timers :
             t.kind = "batch" => pendingBatches[t.chat].timer = t.id]_vars

\* C6 witness: an active run that started by discarding a pending batch.
C6_Witness ==
    \E r \in runs :
        /\ r.trigger = "active"
        /\ r.members # {}
        /\ pendingBatches[r.chat] = NoBatch

\* C7: every chat has at most one live idle timer; an inbound update clears
\* the idle timer the chat had and leaves exactly one live idle timer, the
\* new one; an idle run is started only by the timer that is the current one
\* of its chat, never by a cleared one.
C7_OneIdleTimer ==
    [][/\ \A c \in Chats : Cardinality(LiveIdle(c)) <= 1
       /\ nextUpdate' # nextUpdate =>
             \E c \in Chats :
                 /\ chatTimers'[c] = IdleHandle(nextUpdate')
                 /\ {t.id : t \in {x \in timers' : x.kind = "idle" /\ x.chat = c}}
                        = {IdleHandle(nextUpdate')}
       /\ \A r \in Started :
             r.trigger = "idle" => r.src = chatTimers[r.chat]]_vars

\* C7 witness: a chat whose second text has replaced the idle timer armed by
\* its first.
C7_Witness ==
    \E c \in Chats :
        /\ chatTimers[c] = IdleHandle(2)
        /\ \A d \in Chats \ {c} : chatTimers[d] = 0
        /\ {t.id : t \in LiveIdle(c)} = {IdleHandle(2)}

\* C8 (as stated): when a run that reached generateResponse ends, a live idle
\* timer exists for its chat.
C8_IdleTimerAfterRun ==
    [][\A r \in Ended :
          r.pc # "ctx" =>
              \E t \in timers' : t.kind = "idle" /\ t.chat = r.chat]_vars

\* C9 (as stated): a call chain in which every provider reply had tool calls
\* ends with the fixed fallback, after at most MAX_DEPTH + 1 provider calls.
C9_ToolLoopEndsInFallback ==
    (gen.pc = "done" /\ gen.allTools) =>
        (gen.result = "fallback" /\ gen.calls <= MAX_DEPTH + 1)

\* C10 (as stated): dispatching a tool invocation never ends the call chain.
C10_DispatchNeverAborts ==
    [][gen.pc = "dispatch" => gen'.pc # "done"]_vars

\* C11: a provider call that fails, at whatever depth, ends the call chain
\* with the result null (nothing is thrown to the caller), appends nothing,
\* and is followed by no further provider call or tool dispatch.
C11_ProviderFailureReturnsNull ==
    [][/\ (gen.pc = "provider" /\ gen'.reply = "error") =>
             /\ gen'.pc = "done"
             /\ gen'.result = "null"
             /\ gen'.appended = gen.appended
       /\ gen.pc \in {"done", "returned"} =>
             /\ gen'.calls = gen.calls
             /\ gen'.appended = gen.appended
             /\ gen'.result = gen.result]_vars

\* C11 witness: the provider call of a recursive round failed and the chain
\* returned null.
C11_Witness ==
    /\ gen.pc = "done"
    /\ gen.reply = "error"
    /\ gen.depth >= 1
    /\ gen.result = "null"

\* The tool-result messages of the invocations of a round that are
\* dispatched (those of type 'function'), in the order of the round.
Dispatched(round) ==
    SelectSeq([k \in 1..Len(round) |-> ToolMsg(k)],
              LAMBDA m : round[m.id] # "other")

\* C13 (as stated): once the loop over a round of n invocations is left, the
\* buffer has gained the assistant tool-call message followed by exactly n
\* tool-result messages, in the order of the round, each with its id.
C13_RoundAppendsAllResults ==
    (gen.round # <<>> /\ gen.pc # "dispatch") =>
        gen.appended = <<AssistantMsg>> \o [k \in 1..Len(gen.round) |-> ToolMsg(k)]

\* C14: when the call of the next round is made and when its provider request
\* is issued, the assistant tool-call message and the tool-result message of
\* every dispatched invocation of the round before have been appended, in
\* the order of the round.
C14_NextRoundAfterResults ==
    [][(gen'.depth > 0 /\ gen'.pc \in {"entry", "provider"}) =>
          gen'.appended = <<AssistantMsg>> \o Dispatched(gen'.round)]_vars

\* C14 witness: the provider request of the second round is about to be
\* issued after a round of two invocations whose results were appended.
C14_Witness ==
    /\ gen.pc = "provider"
    /\ gen.depth = 1
    /\ Len(gen.round) = 2
    /\ gen.appended = <<AssistantMsg, ToolMsg(1), ToolMsg(2)>>

\* C15 (as stated): when a tool call of the chain produced a photo and the
\* chain ends in a round with no tool call, the result carries the latest
\* photo produced.
C15_ResultCarriesPhoto ==
    (gen.pc = "done" /\ gen.reply = "final" /\ gen.made # <<>>) =>
        gen.resPhoto = gen.made

\* C16 (as stated): the text of a result holds plain text only: no tool-call
\* markup, no thinking block, no control token; a reply that cleaning leaves
\* empty gives no text.
C16_ResultTextIsClean ==
    gen.pc = "done" => \A i \in 1..Len(gen.text) : gen.text[i] = "text"

\* C12 (as stated): the caller of an active run that returned no result sends
\* a failure notice to the chat.  The only step in which a caller sends to
\* the chat is SendResponse, taken from position "send": a run that ends
\* from position "gen" has sent nothing.
C12_ActiveFailureIsAnnounced ==
    [][\A r \in Ended : r.trigger = "active" => r.pc # "gen"]_vars
\* The non-system messages of buf are the newest messages of the input: a
\* suffix of the input, in the input order.
NewestOf(buf, input) ==
    /\ Len(buf) <= Len(input)
    /\ \A k \in 2..Len(buf) : buf[k] = input[Len(input) - Len(buf) + k]

\* C17: a conversation whose serialized size is at most 40000 characters is
\* sent to the provider as it is, the same messages in the same order, and
\* no summarization call is made for it.
C17_UnderCeilingIsNoOp ==
    (cmp.pc # "entry" /\ 2 + SumLen(cmp.input) + (Len(cmp.input) - 1) <= 40000) =>
        /\ cmp.pc = "sent"
        /\ cmp.buf = cmp.input
        /\ cmp.summaries = 0

\* C17, witness: a first call with a system message and two messages of the
\* conversation, 35004 characters in all, has issued its provider request.
C17_Witness ==
    /\ cmp.pc = "sent"
    /\ cmp.depth = 0
    /\ Len(cmp.input) = 3
    /\ 2 + SumLen(cmp.input) + (Len(cmp.input) - 1) <= 40000
    /\ cmp.buf = cmp.input

\* C18: a conversation whose serialized size exceeds 40000 characters (and
\* for which no summarization ran) is sent with its system message first,
\* with a serialized size of at most 40000 characters, and with the newest
\* of its other messages.
C18_TruncatedFitsCeiling ==
    (/\ cmp.pc = "sent"
     /\ cmp.summaries = 0
     /\ 2 + SumLen(cmp.input) + (Len(cmp.input) - 1) > 40000) =>
        /\ cmp.buf # <<>>
        /\ cmp.buf[1] = cmp.input[1]
        /\ NewestOf(cmp.buf, cmp.input)
        /\ 2 + SumLen(cmp.buf) + (Len(cmp.buf) - 1) <= 40000

\* The checkReminders calls whose query returns in this step.
Polled == {n \in 1..Len(sweeps) : sweeps[n].pc = "poll" /\ sweeps'[n].pc # "poll"}

\* C19: the result of a poll holds every reminder that is due at the time of
\* the poll and not marked sent, and no reminder that is marked sent; a
\* reminder marked sent stays marked.
C19_PollReturnsDueUnsent ==
    [][/\ \A n \in Polled :
             /\ \A id \in 1..Len(reminders) :
                   (reminders[id].due_at <= sweeps[n].at /\ ~reminders[id].is_sent)
                       => \E k \in 1..Len(sweeps'[n].pending) : sweeps'[n].pending[k] = id
             /\ \A k \in 1..Len(sweeps'[n].pending) :
                   ~reminders[sweeps'[n].pending[k]].is_sent
       /\ \A id \in 1..Len(reminders) : reminders[id].is_sent => reminders'[id].is_sent]_vars

\* C19, witness: reminder 1 was returned by one poll, delivered and marked
\* sent, and a later poll, at a time when it is still due, has returned
\* without it.
C19_Witness ==
    /\ Len(reminders) >= 1
    /\ reminders[1].is_sent
    /\ \E n, m \in 1..Len(sweeps) :
          /\ n < m
          /\ sweeps[n].pending # <<>> /\ sweeps[n].pending[1] = 1
          /\ sweeps[m].pc = "done" /\ sweeps[m].at >= reminders[1].due_at
          /\ \A k \in 1..Len(sweeps[m].pending) : sweeps[m].pending[k] # 1

\* C20: a delivery that fails leaves the reminder unmarked; the poll of
\* every later poller call returns the reminder while it is unsent, and the
\* call that got it attempts its delivery before it ends.
C20_FailedDeliveryIsRetried ==
    [][/\ \A n \in 1..Len(sweeps) :
             (sweeps[n].pc = "send" /\ sweeps'[n].threw) => reminders' = reminders
       /\ \A n \in Polled : \A m \in 1..(n - 1) :
             (sweeps[m].threw /\ ~reminders[sweeps[m].pending[sweeps[m].i]].is_sent)
                 => \E k \in 1..Len(sweeps'[n].pending) :
                        sweeps'[n].pending[k] = sweeps[m].pending[sweeps[m].i]
       /\ \A n \in 1..Len(sweeps') :
             sweeps'[n].pc = "done" =>
                 \A k \in 1..Len(sweeps'[n].pending) :
                     sweeps'[n].pending[k] \in sweeps'[n].owed => k <= sweeps'[n].i]_vars

\* The delay and the text a set_reminder call resolves to (ai.ts 437-438).
ResolvedSeconds == or(or(tool.args.seconds, tool.args.time), tool.args.delay)

ResolvedText == or(tool.args.text, tool.args.message)

\* C21: a set_reminder invocation calls onReminder only for a delay that is
\* a number of at least 3600 seconds, with a text; for a smaller delay the
\* result is the error string, onReminder is not called and the reminders
\* table gets no row.
C21_ReminderFloor ==
    (tool.pc = "pushed" /\ tool.name = "set_reminder") =>
        /\ tool.called =>
              /\ ResolvedSeconds.t = "number"
              /\ ResolvedSeconds.v >= 3600
              /\ truthy(ResolvedText)
        /\ ~tool.called => reminders \in StoredBefore
        /\ (ResolvedSeconds.t \in {"number", "numstr"} /\ ResolvedSeconds.v < 3600) =>
              /\ tool.result = MinimumError
              /\ ~tool.called
              /\ reminders \in StoredBefore

\* C21, witness: a call with seconds = 7200 and a text has called
\* onReminder, and the reminder is stored, due in two hours.
C21_Witness ==
    /\ tool.pc = "pushed"
    /\ tool.name = "set_reminder"
    /\ tool.args.seconds = Num(7200)
    /\ tool.called
    /\ Len(reminders) = 1
    /\ reminders[1].due_at = 7200000

\* C22: when the image tool returns a photo, the tool message pushed to the
\* buffer is the marker "Photo will be sent", which does not hold the URL,
\* and the URL is kept for the attachment of the result.
C22_PhotoUrlNotReplayed ==
    (tool.pc = "pushed" /\ tool.name = "get_funny_image" /\ tool.raw.url) =>
        /\ tool.result.src = "Photo will be sent"
        /\ ~tool.result.url
        /\ tool.photo

\* C22, witness: an image invocation whose tool returned the photo with its
\* URL has pushed its tool message.
C22_Witness ==
    /\ tool.pc = "pushed"
    /\ tool.name = "get_funny_image"
    /\ tool.raw.url
    /\ tool.photo

\* C23: the content of a pushed tool message has at most 10000 characters
\* of the result, followed by the marker when the result was longer: a
\* result of more than 10000 characters is cut to its first 10000 and the
\* marker, a shorter one is pushed as it is.
C23_ToolResultCapped ==
    tool.pc = "pushed" =>
        /\ tool.result.body <= 10000
        /\ tool.result.marker => tool.result.body = 10000
        /\ tool.result.body + (IF tool.result.marker THEN 15 ELSE 0) <= 10015
        /\ tool.name \in {"search_web", "extract_url_content"} =>
              IF tool.raw.body > 10000
              THEN tool.result = [tool.raw EXCEPT !.body = 10000, !.marker = TRUE]
              ELSE tool.result = tool.raw

\* C23, witness: a search whose result had 20000 characters has pushed a
\* tool message of its first 10000 characters and the marker.
C23_Witness ==
    /\ tool.pc = "pushed"
    /\ tool.name = "search_web"
    /\ tool.raw.body = 20000
    /\ tool.result.body = 10000
    /\ tool.result.marker

\* C24: in a run of the active caller with no summarization, whose first
\* provider request is answered with one search_web call that returns and
\* whose second request is answered with plain text, there are exactly two
\* provider calls, the assistant message and the result of the search are
\* in the buffer before the second call, the result is that text and
\* nothing else, and the caller sends it.
C24_SearchRoundTrip ==
    (/\ gen.pc \in {"done", "returned"}
     /\ gen.summaries = 0
     /\ gen.depth = 1
     /\ gen.round = <<"ok">>
     /\ gen.reply = "final"
     /\ gen.content # <<>>
     /\ \A i \in 1..Len(gen.content) : gen.content[i] = "text") =>
        /\ gen.calls = 2
        /\ gen.appended = <<AssistantMsg, ToolMsg(1)>>
        /\ gen.result = "text"
        /\ gen.text = gen.content
        /\ gen.pc = "returned" => gen.sent

\* C24, witness: such a run has ended and its caller has sent the text.
C24_Witness ==
    /\ gen.pc = "returned"
    /\ gen.summaries = 0
    /\ gen.depth = 1
    /\ gen.round = <<"ok">>
    /\ gen.reply = "final"
    /\ gen.content = <<"text">>
    /\ gen.sent

\* C25 (as stated): a content that holds exactly one call of search_web, in
\* any of the textual encodings, gives exactly one tool call, with that
\* name and the argument of the call, and the cleaned content is the plain
\* text before the call, with nothing left of the markup.
C25_TextCallRoundTrip ==
    parse.pc = "parsed" =>
        /\ parse.toolCalls =
               <<[name |-> "search_web",
                  args |-> <<[k |-> "query", v |-> parse.value]>>]>>
        /\ parse.cleaned = (IF parse.prefix = <<>> THEN <<>> ELSE <<"cats">>)

\* The timers whose callback runs in this step: a due timer that leaves the
\* timer set in a step in which no update arrives and no text handler moves
\* (either of which can clear a timer instead).
Fired ==
    IF handlers' = handlers /\ nextUpdate' = nextUpdate
    THEN {t \in timers \ timers' : Due(t)} ELSE {}

\* C26: what a trigger of a chat does depends on the lock of that chat only.
\* While the chat is not locked (whatever the locks of the other chats), an
\* active text starts its run in the step that consults the lock, a passive
\* text creates or extends the batch of the chat, and a batch timer with a
\* pending batch starts its run; an idle timer starts its run in any case.
C26_OtherChatsNotBlocked ==
    [][/\ \A h \in Leaving("route") :
             h.chat \notin processingChats =>
                 /\ h.kind = "active" =>
                       \E r \in Started : /\ r.chat = h.chat
                                           /\ r.trigger = "active"
                                           /\ r.src = h.id
                 /\ h.kind = "passive" =>
                       /\ pendingBatches'[h.chat] # NoBatch
                       /\ pendingBatches'[h.chat].lastCtx = h.id
       /\ \A t \in Fired :
             /\ (/\ t.kind = "batch"
                 /\ pendingBatches[t.chat] # NoBatch
                 /\ t.chat \notin processingChats) =>
                    \E r \in Started : r.chat = t.chat /\ r.trigger = "batch"
             /\ t.kind = "idle" =>
                    \E r \in Started : r.chat = t.chat /\ r.trigger = "idle"]_vars

\* C26, witness: runs of two chats are in progress at once, each holding the
\* lock of its chat: the second started while the first held its lock.
C26_Witness ==
    \E r1, r2 \in runs :
        /\ r1.chat # r2.chat
        /\ r1.trigger = "active"
        /\ r2.trigger = "batch"
        /\ {r1.chat, r2.chat} \subseteq processingChats

\* C27: a step of a reminder sweep leaves the set of locked chats as it is,
\* and the result of a poll holds the due, unsent reminders of the locked
\* chats like those of the others.
C27_SweepIgnoresLocks ==
    [][/\ sweeps' # sweeps => processingChats' = processingChats
       /\ \A n \in Polled : \A id \in 1..Len(reminders) :
             (/\ reminders[id].due_at <= sweeps[n].at
              /\ ~reminders[id].is_sent
              /\ reminders[id].chat_id \in processingChats) =>
                 \E k \in 1..Len(sweeps'[n].pending) : sweeps'[n].pending[k] = id]_vars

\* C27, witness: a reminder of a chat has been delivered and marked sent by
\* a sweep, and the lock of the chat is held by someone else.
C27_Witness ==
    \E n \in 1..Len(sweeps) :
        /\ sweeps[n].pc = "save"
        /\ reminders[sweeps[n].pending[sweeps[n].i]].is_sent
        /\ remObs.sends[sweeps[n].pending[sweeps[n].i]] = 1
        /\ reminders[sweeps[n].pending[sweeps[n].i]].chat_id \in processingChats

\* C28 (as stated): a recursive round, at depth 1 or more, sends the buffer
\* it was called with: no summarization and no message dropped.
C28_NoCompactionInRecursion ==
    (cmp.pc = "sent" /\ cmp.depth >= 1) =>
        /\ cmp.summaries = 0
        /\ cmp.buf = cmp.input

\* The messages of a buffer that are not in its first position.
Rest(buf) == IF buf = <<>> THEN <<>> ELSE Tail(buf)

\* The last n elements of a sequence (all of them when it has fewer).
Last(seq, n) ==
    IF Len(seq) <= n THEN seq ELSE SubSeq(seq, Len(seq) - n + 1, Len(seq))

\* seq is a run of elements at the end of of.
IsSuffix(seq, of) ==
    /\ Len(seq) <= Len(of)
    /\ seq = Last(of, Len(seq))

\* C29: a buffer sent after a compaction (the input was over the ceiling) has
\* exactly one system message, in first position; the other messages are in
\* their order of the input; after a successful summarization they are taken
\* from the end of the last 10 messages of the conversation, and are those 10
\* messages whenever these fit under the ceiling with the system message.
C29_CompactedShape ==
    (cmp.pc = "sent" /\ totalChars(cmp.input) > MAX_CHARS) =>
        /\ cmp.buf # <<>>
        /\ cmp.buf[1] = cmp.input[1]
        /\ cmp.buf[1].role = "system"
        /\ \A k \in 2..Len(cmp.buf) : cmp.buf[k].role # "system"
        /\ \A j, k \in 2..Len(cmp.buf) : j < k => cmp.buf[j].id < cmp.buf[k].id
        /\ \A k \in 2..Len(cmp.buf) :
              \E i \in 2..Len(cmp.input) : cmp.input[i] = cmp.buf[k]
        /\ cmp.outcome = "summary" =>
              /\ IsSuffix(Rest(cmp.buf), Last(Rest(cmp.input), KEEP_RECENT))
              /\ cmp.input[1].len + SumLen(Last(Rest(cmp.input), KEEP_RECENT)) <= MAX_CHARS
                    => Rest(cmp.buf) = Last(Rest(cmp.input), KEEP_RECENT)

\* C29 (as stated): a buffer sent after a compaction has exactly one system
\* message, in first position, the others in their order of the input, and
\* after a successful summarization the others are the last 10 messages of
\* the conversation.
C29_LastTenAfterSummary ==
    (cmp.pc = "sent" /\ totalChars(cmp.input) > MAX_CHARS) =>
        /\ cmp.buf # <<>>
        /\ cmp.buf[1].role = "system"
        /\ \A k \in 2..Len(cmp.buf) : cmp.buf[k].role # "system"
        /\ \A j, k \in 2..Len(cmp.buf) : j < k => cmp.buf[j].id < cmp.buf[k].id
        /\ cmp.outcome = "summary" =>
              Rest(cmp.buf) = Last(Rest(cmp.input), KEEP_RECENT)

\* C29 witness: a summarization succeeded on a conversation of more than 10
\* messages, and the buffer sent is the system message and the last 10.
C29_Witness ==
    /\ cmp.pc = "sent"
    /\ cmp.outcome = "summary"
    /\ Len(cmp.input) > KEEP_RECENT + 1
    /\ Len(cmp.buf) = KEEP_RECENT + 1
    /\ cmp.buf[2] = cmp.input[Len(cmp.input) - KEEP_RECENT + 1]

\* C29 second case: a buffer compacted by truncation alone, with a message
\* dropped and a message kept.
C29_WitnessTruncation ==
    /\ cmp.pc = "sent"
    /\ cmp.outcome = "none"
    /\ Len(cmp.buf) >= 2
    /\ Len(cmp.buf) < Len(cmp.input)

\* C30: when the provider call of the summarization is rejected, the run goes
\* on to the main request; no summary is stored, and the buffer sent is the
\* input as it was, cut by the truncation alone (the input of a summarization
\* is over 60000 characters, hence over the ceiling).
C30_FailedSummaryGoesOn ==
    cmp.outcome = "throws" =>
        /\ cmp.pc = "sent"
        /\ cmp.depth = 0
        /\ ~cmp.stored
        /\ totalChars(cmp.input) > MAX_CHARS
        /\ cmp.buf = truncated(cmp.input)

\* C30 witness: the summarization call was rejected on a conversation of more
\* than 10 messages, and the request carries more than the 10 most recent.
C30_Witness ==
    /\ cmp.outcome = "throws"
    /\ cmp.pc = "sent"
    /\ ~cmp.stored
    /\ Len(cmp.buf) > KEEP_RECENT + 1
    /\ Len(cmp.buf) < Len(cmp.input)

\* The number of assistant messages in the history of a chat.
AssistantCount(hist) ==
    Cardinality({i \in 1..Len(hist) : hist[i].role = "assistant"})

\* C31: the return of generateResponse ends a batch run whose reply decision
\* did not fire (the run made in background mode): whatever the result, the
\* run has no send step and no save step, and the step adds no assistant
\* message to the history of the chat.  A batch run that sends or saves a
\* reply is one whose decision fired when generateResponse returned.
C31_PassiveReplyOnlyIfLucky ==
    [][\A r \in runs :
          (r.trigger = "batch" /\ r.pc = "gen" /\ ~r.lucky) =>
                    /\ \A r2 \in runs' :
                          (r2.chat = r.chat /\ r2.trigger = "batch")
                              => r2.pc \notin {"send", "save"}
                    /\ (r \notin runs' /\ \A r2 \in runs' : r2.chat # r.chat)
                          => AssistantCount(history'[r.chat]) = AssistantCount(history[r.chat])]_vars

\* C31 witness: a batch run in background mode waits for generateResponse.
C31_Witness ==
    \E r \in runs :
        /\ r.trigger = "batch"
        /\ r.pc = "gen"
        /\ ~r.lucky
        /\ r.ctx # {}

\* C32 (as stated): after a call shouldReplyPassive(chat, n) the result is
\* true exactly when the stored counter plus n is at least 100 / reply_chance
\* (never, when reply_chance is 0); the stored counter is then that sum minus
\* the threshold, and the sum itself when the result is false; it is never
\* negative.
C32_ThresholdContract ==
    chance.calls > 0 =>
        LET counter == chance.last.was + chance.last.n * Whole
            reached == counter * chance.last.chance >= 100 * Whole
        IN  /\ chance.last.result = reached
            /\ chance.message_counter =
                  IF reached THEN counter - (100 * Whole) \div chance.last.chance
                  ELSE counter
            /\ chance.message_counter >= 0

\* C39 (as stated): with reply_chance 0 no call of shouldReplyPassive returns
\* true.
C39_ZeroChanceNeverReplies ==
    (chance.calls > 0 /\ chance.last.chance = 0) => ~chance.last.result

\* C33: a chat whose lock is held is eventually unlocked, and a chat is in
\* the processing set exactly while an active or batch run of that chat is in
\* progress (there is at most one).
C33_LockEventuallyReleased ==
    /\ \A c \in Chats : (c \in processingChats) ~> (c \notin processingChats)
    /\ [](\A c \in Chats :
            /\ (c \in processingChats)
                   <=> (\E r \in runs : r.chat = c /\ r.trigger # "idle")
            /\ Cardinality({r \in runs : r.chat = c /\ r.trigger # "idle"}) <= 1)

\* C33 witness: a chat is locked by a run that waits for the end of a send.
C33_Witness ==
    \E r \in runs :
        /\ r.trigger # "idle"
        /\ r.pc = "send"
        /\ r.chat \in processingChats

\* C34: no chat has a held lock and a pending batch at once; and when a due
\* batch timer fires on a pending batch, a batch run of the chat starts and
\* holds the lock: the batch is never discarded because of the lock.
C34_NoBatchWhileLocked ==
    /\ [](\A c \in Chats : c \in processingChats => pendingBatches[c] = NoBatch)
    /\ [][\A t \in Fired :
             (t.kind = "batch" /\ pendingBatches[t.chat] # NoBatch) =>
                 /\ t.chat \notin processingChats
                 /\ t.chat \in processingChats'
                 /\ \E r \in runs' \ runs :
                       /\ r.chat = t.chat
                       /\ r.trigger = "batch"
                       /\ r.count = pendingBatches[t.chat].messagesCount]_vars

\* C34 witness: a batch run holds the lock of its chat while a passive text
\* of the same chat is about to be routed.
C34_Witness ==
    \E r \in runs, h \in handlers :
        /\ r.trigger = "batch"
        /\ r.chat \in processingChats
        /\ h.chat = r.chat
        /\ h.kind = "passive"
        /\ h.pc = "route"

\* C35 (as stated): no reminder is delivered to its chat more than once,
\* whatever the overlap of the checkReminders calls.
C35_ReminderSentOnce ==
    \A id \in 1..Len(reminders) : remObs.sends[id] <= 1

\* The reminders on whose delivery a checkReminders call has failed.
Failing == {sweeps[k].pending[sweeps[k].i] : k \in {j \in 1..Len(sweeps) : sweeps[j].threw}}

\* C36 (as stated): a reminder that a checkReminders call found due and
\* unsent, and whose own delivery has never failed, is sent and marked sent
\* by the time that call ends, whatever happened to the other reminders.
C36_FailureDoesNotBlock ==
    \A n \in 1..Len(sweeps) :
        sweeps[n].pc = "done" =>
            \A id \in Range(sweeps[n].pending) \ Failing :
                /\ remObs.sends[id] >= 1
                /\ reminders[id].is_sent

\* C37 (as stated): in a buffer sent to the provider every tool message comes
\* after an assistant message that carries its tool-call id.
C37_ToolResultsFollowTheirCall ==
    cmp.pc = "sent" =>
        \A k \in 1..Len(cmp.buf) :
            cmp.buf[k].role = "tool" =>
                \E j \in 1..(k - 1) :
                    /\ cmp.buf[j].role = "assistant"
                    /\ cmp.buf[k].calls \subseteq cmp.buf[j].calls

\* C38 (as stated): when the result of a set_reminder invocation is the
\* success string, the reminders table holds an unsent reminder of the chat
\* and the user, due the requested number of seconds after the call.
C38_SuccessMeansStored ==
    (tool.pc = "pushed" /\ tool.name = "set_reminder" /\ tool.result = ReminderSet) =>
        \E id \in 1..Len(reminders) :
            reminders[id] = Reminder(1, 1, now + ResolvedSeconds.v * 1000)

\* C40 (as stated): when the result has a text and a photo and the photo
\* request succeeded, the call ends with the photo and the text in the chat.
C40_TextAndPhotoDelivered ==
    (send.pc \in {"returned", "done"} /\ send.response = "textphoto" /\ send.photoOk) =>
        send.sent = {"photo", "text"}

====
